---- MODULE Spec2Model ----
(***************************************************************************)
(* Model of the pytester backend: the rule-based repair engine of          *)
(* backend/ai_helper.py and the analysis pipeline of backend/app.py and    *)
(* backend/analyzer.py.                                                    *)
(*                                                                         *)
(* Text is modelled at character level: a string is a sequence of          *)
(* one-character strings, a source is the sequence of its lines (what      *)
(* code.split('\n') yields; '\n'.join is its inverse).                     *)
(***************************************************************************)
EXTENDS Integers, Sequences, FiniteSets, TLC

VARIABLES
    pc,             \* position of the operation under analysis
    code,           \* the source text handed to the operation, as lines
    errors,         \* the diagnostics still to be processed by a repair pass
    lines,          \* the line buffer of a repair pass
    improvements,   \* the records collected by a repair pass
    origin,         \* for each buffer line, the original line number it holds (0: inserted)
    last,           \* what the most recent repair step did
    analysis_output,\* the analysis text handed to get_improvement_suggestions, as lines
    error_count,    \* the error count handed to get_improvement_suggestions
    warning_count,  \* the warning count handed to get_improvement_suggestions
    result,         \* what the operation returned
    impl,           \* the module whose analyze_python_code runs: "app" or "analyzer"
    parsed,         \* what ast.parse does on the submitted source
    pylint,         \* what running the pylint process does
    calls,          \* the analysis steps and endpoints invoked so far, in order
    endpoints       \* what each suggestion endpoint answers when contacted

repairVars == <<errors, lines, improvements, origin, last>>
suggestVars == <<analysis_output, error_count, warning_count>>
analyzeVars == <<impl, parsed, pylint, calls>>
vars == <<pc, code, errors, lines, improvements, origin, last,
          analysis_output, error_count, warning_count, result,
          impl, parsed, pylint, calls, endpoints>>

(***************************************************************************)
(* Bounds of the model.                                                    *)
(***************************************************************************)
MaxLines == 2       \* longest source of the repair-pass specifications
MaxErrors == 2      \* longest diagnostic list of a repair pass
MaxReport == 2      \* longest analysis text, in lines
MaxCount == 1       \* largest error or warning count handed in
MaxBody == 3        \* longest function body of the syntax trees
MaxOutput == 2      \* longest linter output, in lines

\* Python's None for an optional value: an optional is <<>> or <<v>>.
None == <<>>
Some(v) == <<v>>
NoException == "none"

(***************************************************************************)
(* Characters and the Python string primitives the code uses.              *)
(***************************************************************************)
LowerSeq == <<"a", "b", "c", "d", "e", "f", "g", "h", "i", "j", "k", "l", "m",
              "n", "o", "p", "q", "r", "s", "t", "u", "v", "w", "x", "y", "z">>
UpperSeq == <<"A", "B", "C", "D", "E", "F", "G", "H", "I", "J", "K", "L", "M",
              "N", "O", "P", "Q", "R", "S", "T", "U", "V", "W", "X", "Y", "Z">>
DigitSeq == <<"0", "1", "2", "3", "4", "5", "6", "7", "8", "9">>

Range(f) == {f[i] : i \in DOMAIN f}
LowerCh == Range(LowerSeq)
UpperCh == Range(UpperSeq)
DigitCh == Range(DigitSeq)

IsSpace(c) == c \in {" ", "\n"}                              \* \s
IsUpper(c) == c \in UpperCh                                  \* [A-Z], str.isupper
IsDigit(c) == c \in DigitCh                                  \* \d
IsWord(c) == c \in LowerCh \cup UpperCh \cup DigitCh \cup {"_"}  \* \w

\* str.lower() on one character
LowerOf(c) == IF IsUpper(c) THEN LowerSeq[CHOOSE i \in 1..26 : UpperSeq[i] = c] ELSE c
\* int() of one digit
DigitVal(c) == (CHOOSE i \in 1..10 : DigitSeq[i] = c) - 1

\* s[i:] of Python, i 0-based
Suffix(s, i) == IF i >= Len(s) THEN <<>> ELSE SubSeq(s, i + 1, Len(s))

\* t occurs in s starting at 1-based position i
StartsAt(s, t, i) ==
    /\ i >= 1
    /\ i + Len(t) - 1 <= Len(s)
    /\ \A k \in 1..Len(t) : s[i + k - 1] = t[k]

\* Python's `t in s`
Contains(s, t) == \E i \in 1..(Len(s) + 1) : StartsAt(s, t, i)

\* str.endswith
EndsWith(s, t) == Len(t) <= Len(s) /\ StartsAt(s, t, Len(s) - Len(t) + 1)

\* str.rstrip(): drop trailing whitespace
RECURSIVE rstrip(_)
rstrip(s) ==
    IF s = <<>> THEN s
    ELSE IF IsSpace(s[Len(s)]) THEN rstrip(SubSeq(s, 1, Len(s) - 1))
    ELSE s

\* str.lstrip(): drop leading whitespace
RECURSIVE lstrip(_)
lstrip(s) ==
    IF s = <<>> THEN s
    ELSE IF IsSpace(s[1]) THEN lstrip(Tail(s))
    ELSE s

\* list indexing lst[n] of Python: negative n counts from the end.
\* Gives the 1-based position, or 0 when Python raises IndexError.
PyIndex(n, len) ==
    IF n >= 0 THEN (IF n < len THEN n + 1 ELSE 0)
    ELSE (IF len + n >= 0 THEN len + n + 1 ELSE 0)

(***************************************************************************)
(* fix_syntax_errors: the syntax repair pass.                              *)
(***************************************************************************)
Keywords == {
    <<"i", "f">>, <<"e", "l", "i", "f">>, <<"e", "l", "s", "e">>, <<"f", "o", "r">>,
    <<"w", "h", "i", "l", "e">>, <<"d", "e", "f">>, <<"c", "l", "a", "s", "s">> }

\* KeywordRegex without the trailing \S: a bare keyword would match
KeywordRegex_NoContent(line) ==
    \E k \in Keywords : \E i \in 1..Len(line) :
        /\ StartsAt(line, k, i)
        /\ (i + Len(k) > Len(line) \/ ~IsWord(line[i + Len(k)]))

\* re.search(r'(if|elif|else|for|while|def|class)\b.*\S', line):
\* a keyword, then a word boundary, then any text ending in a non-space.
\* The keyword ends in a word character, so \b holds exactly when the next
\* character is not a word character; .*\S needs a non-space at or after it.
KeywordRegex(line) ==
    \E k \in Keywords : \E i \in 1..Len(line) :
        /\ StartsAt(line, k, i)
        /\ i + Len(k) <= Len(line)
        /\ ~IsWord(line[i + Len(k)])
        /\ \E j \in (i + Len(k))..Len(line) : ~IsSpace(line[j])

\* The phrases fix_syntax_errors looks for in a message; a message is
\* modelled by the set of these phrases that occur in it.
Phrases == {"expected ':'", "unmatched", "unclosed", "unexpected indent",
            "expected an indented block"}

InMsg(phrase, message) == phrase \in message

\* str(n) of an integer
RECURSIVE StrNat(_)
StrNat(n) == IF n < 10 THEN <<DigitSeq[n + 1]>> ELSE StrNat(n \div 10) \o <<DigitSeq[(n % 10) + 1]>>
Str(n) == IF n < 0 THEN <<"-">> \o StrNat(0 - n) ELSE StrNat(n)

\* A record {'issue': ..., 'solution': ...}: each text is its fixed part
\* and the value formatted into it (<<>> when it has none).
Record(issue, arg, solution, sarg) ==
    [issue |-> issue, arg |-> arg, solution |-> <<solution>>, sarg |-> sarg]

\* One iteration of fix_syntax_errors' loop over a buffer state
\* st = [lines, improvements, raised]; the result is the next buffer state.
SyntaxEdit(st, pos, newline, text, arg, solution) ==
    [st EXCEPT !.lines = [st.lines EXCEPT ![pos] = newline],
               !.improvements = Append(st.improvements,
                                       Record(text, Str(arg), solution, <<>>))]

SyntaxStep(st, error) ==
    IF error.line = None THEN [st EXCEPT !.raised = "TypeError"]
    ELSE
    LET line_no == error.line[1]
        line_num == line_no - 1
        message == error.message
        pos == PyIndex(line_num, Len(st.lines))
    IN
    IF line_num >= Len(st.lines) THEN st
    ELSE IF pos = 0 THEN [st EXCEPT !.raised = "IndexError"]
    ELSE
    LET current_line == st.lines[pos] IN
    IF InMsg("expected ':'", message) THEN
        IF /\ ~EndsWith(rstrip(current_line), <<":">>)
           /\ KeywordRegex(current_line)
        THEN SyntaxEdit(st, pos, rstrip(current_line) \o <<":">>,
                        "Missing colon at line ", line_no,
                        "Added missing colon after statement")
        ELSE st
    ELSE IF InMsg("unmatched", message) \/ InMsg("unclosed", message) THEN
        IF Contains(current_line, <<"(">>) /\ ~Contains(current_line, <<")">>)
        THEN SyntaxEdit(st, pos, current_line \o <<")">>,
                        "Unbalanced parentheses at line ", line_no,
                        "Added closing parenthesis")
        ELSE IF Contains(current_line, <<"[">>) /\ ~Contains(current_line, <<"]">>)
        THEN SyntaxEdit(st, pos, current_line \o <<"]">>,
                        "Unbalanced brackets at line ", line_no,
                        "Added closing bracket")
        ELSE IF Contains(current_line, <<"{">>) /\ ~Contains(current_line, <<"}">>)
        THEN SyntaxEdit(st, pos, current_line \o <<"}">>,
                        "Unbalanced braces at line ", line_no,
                        "Added closing brace")
        ELSE st
    ELSE IF InMsg("unexpected indent", message) THEN
        SyntaxEdit(st, pos, lstrip(current_line),
                   "Incorrect indentation at line ", line_no,
                   "Removed extra indentation")
    ELSE IF InMsg("expected an indented block", message) THEN
        SyntaxEdit(st, pos, <<" ", " ", " ", " ">> \o current_line,
                   "Missing indentation at line ", line_no,
                   "Added required indentation")
    ELSE st

\* The whole pass: the loop stops at the first exception.
RECURSIVE SyntaxLoop(_, _)
SyntaxLoop(st, errs) ==
    IF errs = <<>> \/ st.raised # NoException THEN st
    ELSE SyntaxLoop(SyntaxStep(st, Head(errs)), Tail(errs))

fix_syntax_errors(c, errs) ==
    SyntaxLoop([lines |-> c, improvements |-> <<>>, raised |-> NoException], errs)

(***************************************************************************)
(* fix_pylint_errors: the lint repair pass.                                *)
(***************************************************************************)
\* The literal texts of the lint pass.
T_UndefinedVariable == <<"U", "n", "d", "e", "f", "i", "n", "e", "d", " ",
                         "v", "a", "r", "i", "a", "b", "l", "e", " ", "'">>
T_UnusedImport == <<"U", "n", "u", "s", "e", "d", " ", "i", "m", "p", "o", "r", "t", " ">>
T_InvalidName == <<"I", "n", "v", "a", "l", "i", "d", " ", "n", "a", "m", "e", " ", "\"">>
T_UnusedVariable == <<"U", "n", "u", "s", "e", "d", " ",
                      "v", "a", "r", "i", "a", "b", "l", "e", " ", "'">>
T_import == <<"i", "m", "p", "o", "r", "t", " ">>
T_NoneTodo ==
    <<" ", "=", " ", "N", "o", "n", "e", " ", " ", "#", " ", "T", "O", "D", "O", ":", " ", "I", "n", "i", "t", "i", "a", "l", "i", "z", "e", " ", "w", "i", "t", "h", " ", "a", " ", "p", "r", "o", "p", "e", "r", " ", "v", "a", "l", "u", "e">>
T_Hash == <<"#", " ">>
T_UnusedImportMark == <<" ", " ", "#", " ", "U", "n", "u", "s", "e", "d", " ",
                        "i", "m", "p", "o", "r", "t">>
T_UnusedVariableMark == <<" ", " ", "#", " ", "U", "n", "u", "s", "e", "d", " ",
                          "v", "a", "r", "i", "a", "b", "l", "e">>

\* The codes the lint pass handles
C_E0602 == <<"E", "0", "6", "0", "2">>
C_W0611 == <<"W", "0", "6", "1", "1">>
C_C0103 == <<"C", "0", "1", "0", "3">>
C_W0612 == <<"W", "0", "6", "1", "2">>

\* Number of word characters of s from 1-based position i on: the greedy \w*
RECURSIVE WordRun(_, _)
WordRun(s, i) ==
    IF i > Len(s) \/ ~IsWord(s[i]) THEN 0 ELSE 1 + WordRun(s, i + 1)

\* Number of whitespace characters of s from position i on: the greedy \s*
RECURSIVE SpaceRun(_, _)
SpaceRun(s, i) ==
    IF i > Len(s) \/ ~IsSpace(s[i]) THEN 0 ELSE 1 + SpaceRun(s, i + 1)

\* re.search(prefix + r"(\w+)" + suffix, s).group(1), or None: the leftmost
\* position where prefix is followed by a non-empty word and then suffix
\* (suffix never starts with a word character, so the word is the whole run).
MatchAt(s, prefix, suffix, i) ==
    /\ StartsAt(s, prefix, i)
    /\ WordRun(s, i + Len(prefix)) >= 1
    /\ StartsAt(s, suffix, i + Len(prefix) + WordRun(s, i + Len(prefix)))

SearchWord(s, prefix, suffix) ==
    IF \E i \in 1..Len(s) : MatchAt(s, prefix, suffix, i)
    THEN LET i == CHOOSE j \in 1..Len(s) :
                    /\ MatchAt(s, prefix, suffix, j)
                    /\ \A k \in 1..(j - 1) : ~MatchAt(s, prefix, suffix, k)
             b == i + Len(prefix)
         IN SubSeq(s, b, b + WordRun(s, b) - 1)
    ELSE None

\* re.sub(r'([A-Z])', r'_\1', name).lower()
RECURSIVE SnakeLower(_)
SnakeLower(name) ==
    IF name = <<>> THEN <<>>
    ELSE (IF IsUpper(name[1]) THEN <<"_", LowerOf(name[1])>> ELSE <<name[1]>>)
         \o SnakeLower(Tail(name))

\* str.lstrip('_')
RECURSIVE lstrip_underscore(_)
lstrip_underscore(s) ==
    IF s = <<>> THEN s
    ELSE IF s[1] = "_" THEN lstrip_underscore(Tail(s))
    ELSE s

\* str.replace(old, new) for a non-empty old: every non-overlapping
\* occurrence, left to right
RECURSIVE replace(_, _, _)
replace(s, old, new) ==
    IF s = <<>> THEN <<>>
    ELSE IF StartsAt(s, old, 1) THEN new \o replace(Suffix(s, Len(old)), old, new)
    ELSE <<s[1]>> \o replace(Tail(s), old, new)

\* The assignment test of the W0612 case left out
AssignRegex_Any(line, var_name) == TRUE

\* re.search(rf'\b{re.escape(var_name)}\s*=', line): var_name is a word, so
\* \b holds when the character before it is not a word character
AssignRegex(line, var_name) ==
    \E i \in 1..Len(line) :
        /\ StartsAt(line, var_name, i)
        /\ (i = 1 \/ ~IsWord(line[i - 1]))
        /\ LET e == i + Len(var_name) IN
           StartsAt(line, <<"=">>, e + SpaceRun(line, e))

\* Insert placing the new element after position i instead of before it
Insert_After(seq, i, x) == SubSeq(seq, 1, i + 1) \o <<x>> \o SubSeq(seq, i + 2, Len(seq))

\* list.insert(i, x) for 0 <= i <= len
Insert(seq, i, x) == SubSeq(seq, 1, i) \o <<x>> \o SubSeq(seq, i + 1, Len(seq))

\* dict.get(key, default) on an optional field
Get(field, default) == IF field = None THEN default ELSE field[1]

\* One iteration of fix_pylint_errors' loop over a buffer state
\* st = [lines, improvements, origin]; origin is bookkeeping of the model:
\* origin[i] is the number of the source line that buffer line i holds.
\* An in-place edit that adds the new text as a line of its own
LintReplace_Grow(st, pos, newline, rec) ==
    [st EXCEPT !.lines = Insert(st.lines, pos, newline),
               !.improvements = Append(st.improvements, rec)]

\* `lines[line_num] = <new text>` followed by `improvements.append(<record>)`
LintReplace(st, pos, newline, rec) ==
    [st EXCEPT !.lines = [st.lines EXCEPT ![pos] = newline],
               !.improvements = Append(st.improvements, rec)]

LintStep(st, error) ==
    LET error_code == error.code
        line_num == Get(error.line_num, 0) - 1
    IN
    IF line_num >= Len(st.lines) \/ line_num < 0 THEN st
    ELSE
    LET pos == line_num + 1
        current_line == st.lines[pos]
    IN
    IF error_code = C_E0602 THEN
        LET var_name == SearchWord(error.message, T_UndefinedVariable, <<"'">>) IN
        IF var_name # None
        THEN [lines |-> Insert(st.lines, line_num, var_name \o T_NoneTodo),
              origin |-> Insert(st.origin, line_num, 0),
              improvements |-> Append(st.improvements,
                  Record("Undefined variable '", var_name,
                         "Added a placeholder initialization. Replace 'None' with an appropriate value.",
                         <<>>))]
        ELSE st
    ELSE IF error_code = C_W0611 THEN
        LET import_name == SearchWord(error.message, T_UnusedImport, <<>>) IN
        IF import_name # None /\ Contains(current_line, T_import \o import_name)
        THEN LintReplace(st, pos, T_Hash \o current_line \o T_UnusedImportMark,
                         Record("Unused import '", import_name,
                                "Commented out the unused import. Remove it if not needed.",
                                <<>>))
        ELSE st
    ELSE IF error_code = C_C0103 THEN
        LET invalid_name == SearchWord(error.message, T_InvalidName, <<"\"">>) IN
        IF invalid_name # None
        THEN LET suggestion == IF IsUpper(invalid_name[1]) THEN invalid_name
                               ELSE lstrip_underscore(SnakeLower(invalid_name))
             IN IF suggestion # invalid_name
                THEN LintReplace(st, pos, replace(current_line, invalid_name, suggestion),
                                 Record("Invalid name '", invalid_name,
                                        "Renamed to following Python naming conventions",
                                        suggestion))
                ELSE st
        ELSE st
    ELSE IF error_code = C_W0612 THEN
        LET var_name == SearchWord(error.message, T_UnusedVariable, <<"'">>) IN
        IF var_name # None /\ AssignRegex(current_line, var_name)
        THEN LintReplace(st, pos, T_Hash \o current_line \o T_UnusedVariableMark,
                         Record("Unused variable '", var_name,
                                "Commented out the unused variable. Remove it if not needed.",
                                <<>>))
        ELSE st
    ELSE st

RECURSIVE LintLoop(_, _)
LintLoop(st, errs) ==
    IF errs = <<>> THEN st ELSE LintLoop(LintStep(st, Head(errs)), Tail(errs))

fix_pylint_errors(c, errs) ==
    LintLoop([lines |-> c, improvements |-> <<>>,
              origin |-> [i \in 1..Len(c) |-> i]], errs)

NoResult == [raised |-> NoException]

(***************************************************************************)
(* Inputs of the repair passes.                                            *)
(***************************************************************************)
\* All sequences of length lo..hi over a set
SeqsOf(S, lo, hi) == UNION {[1..n -> S] : n \in lo..hi}

\* Source lines offered to the syntax repair pass
SyntaxLines == {
    <<"i", "f", " ", "T">>,
    <<"i", "f", " ", "T", " ">>,
    <<"i", "f", " ", "T", ":">>,
    <<"e", "l", "s", "e">>,
    <<"x", "=", "(", "1">>,
    <<"x", "=", "[", "{">>,
    <<" ", " ", "p", "(", "1", ")">> }

\* A syntax diagnostic {'line': e.lineno, 'message': str(e)}; e.lineno may be None
SyntaxMessages == {m \in SUBSET Phrases : Cardinality(m) <= 1}
SyntaxErrors ==
    [line : {None} \cup {Some(n) : n \in (0 - 1)..(MaxLines + 1)}, message : SyntaxMessages]

\* Source lines offered to the lint repair pass
LintLines == {
    <<"i", "m", "p", "o", "r", "t", " ", "o", "s">>,
    <<"m", "y", "V", "a", "r", " ", "=", " ", "1">>,
    <<"p", "(", "y", ")">> }

\* A lint diagnostic {'code', 'line_num', 'message'}; the line_num key may be absent
M_Undefined == <<"U", "n", "d", "e", "f", "i", "n", "e", "d", " ", "v", "a", "r", "i", "a", "b", "l", "e", " ", "'", "y", "'">>
M_UnusedImport == <<"U", "n", "u", "s", "e", "d", " ", "i", "m", "p", "o", "r", "t", " ", "o", "s">>
M_InvalidName == <<"I", "n", "v", "a", "l", "i", "d", " ", "n", "a", "m", "e", " ", "\"", "m", "y", "V", "a", "r", "\"">>
M_UnusedVariable == <<"U", "n", "u", "s", "e", "d", " ", "v", "a", "r", "i", "a", "b", "l", "e", " ", "'", "m", "y", "V", "a", "r", "'">>
C_R0912 == <<"R", "0", "9", "1", "2">>
M_Other == <<"T", "o", "o", " ", "m", "a", "n", "y", " ", "b", "r", "a", "n", "c", "h", "e", "s">>

LintKinds == {
    <<C_E0602, M_Undefined>>, <<C_E0602, M_Other>>, <<C_W0611, M_UnusedImport>>,
    <<C_C0103, M_InvalidName>>, <<C_W0612, M_UnusedVariable>>, <<C_R0912, M_Other>>,
    <<C_W0611, M_Other>>, <<C_C0103, M_Other>>, <<C_W0612, M_Other>> }
LintErrors ==
    {[code |-> k[1], line_num |-> n, message |-> k[2]] :
        k \in LintKinds, n \in {None} \cup {Some(i) : i \in 0..(MaxLines + 1)}}

\* What the latest loop iteration of a repair pass did (bookkeeping of the
\* model): the pass, the diagnostic's 1-based line number (0 when absent),
\* whether that number lay within the buffer, the source line number held by
\* the buffer line it addressed, the buffer and record count before the step.
NoStep == [pass |-> "none", line |-> 0, inrange |-> FALSE, addressed |-> 0,
           before |-> <<>>, nrec |-> 0]
StepInfo(pass, n, present) ==
    [pass |-> pass, line |-> n,
     inrange |-> (present /\ n >= 1 /\ n <= Len(lines)),
     addressed |-> IF present /\ n >= 1 /\ n <= Len(lines) THEN origin[n] ELSE 0,
     before |-> lines, nrec |-> Len(improvements)]

(***************************************************************************)
(* The syntax repair pass, one diagnostic per step.                        *)
(***************************************************************************)
InitSyntax ==
    /\ pc = "syntax"
    /\ code \in SeqsOf(SyntaxLines, 1, MaxLines)
    /\ errors = <<>>
    /\ lines = code
    /\ improvements = <<>>
    /\ origin = [i \in 1..Len(code) |-> i]
    /\ last = NoStep
    /\ analysis_output = <<>>
    /\ error_count = 0
    /\ warning_count = 0
    /\ result = NoResult
    /\ impl = "ai_helper"
    /\ parsed = <<>>
    /\ pylint = <<>>
    /\ calls = <<>>
    /\ endpoints = <<>>

\* `for error in errors:` body, for the next diagnostic of the list
SyntaxIter ==
    /\ pc = "syntax"
    /\ Len(errors) < MaxErrors
    /\ \E error \in SyntaxErrors :
        LET st == SyntaxStep([lines |-> lines, improvements |-> improvements,
                              raised |-> NoException], error)
        IN /\ errors' = Append(errors, error)
           /\ lines' = st.lines
           /\ improvements' = st.improvements
           /\ pc' = IF st.raised = NoException THEN "syntax" ELSE "raised"
           /\ last' = StepInfo("syntax", Get(error.line, 0), error.line # None)
    /\ UNCHANGED <<code, origin, suggestVars, result, analyzeVars, endpoints>>

\* `return '\n'.join(lines), improvements`
SyntaxReturn ==
    /\ pc = "syntax"
    /\ pc' = "done"
    /\ UNCHANGED <<code, repairVars, suggestVars, result, analyzeVars, endpoints>>

NextSyntax == SyntaxIter \/ SyntaxReturn
SpecSyntax == InitSyntax /\ [][NextSyntax]_vars

(***************************************************************************)
(* The lint repair pass, one diagnostic per step.                          *)
(***************************************************************************)
InitLint ==
    /\ pc = "lint"
    /\ code \in SeqsOf(LintLines, 1, MaxLines)
    /\ errors = <<>>
    /\ lines = code
    /\ improvements = <<>>
    /\ origin = [i \in 1..Len(code) |-> i]
    /\ last = NoStep
    /\ analysis_output = <<>>
    /\ error_count = 0
    /\ warning_count = 0
    /\ result = NoResult
    /\ impl = "ai_helper"
    /\ parsed = <<>>
    /\ pylint = <<>>
    /\ calls = <<>>
    /\ endpoints = <<>>

\* `for error in errors:` body, for the next diagnostic of the list
LintIter ==
    /\ pc = "lint"
    /\ Len(errors) < MaxErrors
    /\ \E error \in LintErrors :
        LET st == LintStep([lines |-> lines, improvements |-> improvements,
                            origin |-> origin], error)
        IN /\ errors' = Append(errors, error)
           /\ lines' = st.lines
           /\ improvements' = st.improvements
           /\ origin' = st.origin
           /\ last' = StepInfo("lint", Get(error.line_num, 0), error.line_num # None)
    /\ UNCHANGED <<pc, code, suggestVars, result, analyzeVars, endpoints>>

\* `return '\n'.join(lines), improvements`
LintReturn ==
    /\ pc = "lint"
    /\ pc' = "done"
    /\ UNCHANGED <<code, repairVars, suggestVars, result, analyzeVars, endpoints>>

NextLint == LintIter \/ LintReturn
SpecLint == InitLint /\ [][NextLint]_vars

(***************************************************************************)
(* get_improvement_suggestions: the repair engine.                         *)
(***************************************************************************)
\* '\n'.join(lines): the text as one string
RECURSIVE JoinLines(_)
JoinLines(ls) ==
    IF ls = <<>> THEN <<>>
    ELSE IF Len(ls) = 1 THEN ls[1]
    ELSE ls[1] \o <<"\n">> \o JoinLines(Tail(ls))

\* int() of a string of digits
RECURSIVE ToInt(_)
ToInt(ds) == IF ds = <<>> THEN 0 ELSE 10 * ToInt(SubSeq(ds, 1, Len(ds) - 1)) + DigitVal(ds[Len(ds)])

\* Number of digits of s from position i on: the greedy \d+
RECURSIVE DigitRun(_, _)
DigitRun(s, i) ==
    IF i > Len(s) \/ ~IsDigit(s[i]) THEN 0 ELSE 1 + DigitRun(s, i + 1)

\* The leftmost position of s satisfying P, or 0
Leftmost(s, P(_)) ==
    IF \E i \in 1..Len(s) : P(i)
    THEN CHOOSE i \in 1..Len(s) : P(i) /\ \A k \in 1..(i - 1) : ~P(k)
    ELSE 0

\* re.search(r'([EWRFC]\d{4})', line).group(1), or None
CodeAt(line, i) ==
    /\ i + 4 <= Len(line)
    /\ line[i] \in {"E", "W", "R", "F", "C"}
    /\ \A k \in 1..4 : IsDigit(line[i + k])
CodeSearch(line) ==
    LET P(i) == CodeAt(line, i)
        i == Leftmost(line, P)
    IN IF i = 0 THEN None ELSE SubSeq(line, i, i + 4)

\* re.search(r'line (\d+)', line).group(1) as int, or None
T_line == <<"l", "i", "n", "e", " ">>
LineAt(line, i) == StartsAt(line, T_line, i) /\ DigitRun(line, i + 5) >= 1
LineSearch(line) ==
    LET P(i) == LineAt(line, i)
        i == Leftmost(line, P)
    IN IF i = 0 THEN None
       ELSE Some(ToInt(SubSeq(line, i + 5, i + 4 + DigitRun(line, i + 5))))

RuntimeErrorNames == {
    <<"S", "y", "n", "t", "a", "x", "E", "r", "r", "o", "r">>,
    <<"I", "n", "d", "e", "n", "t", "a", "t", "i", "o", "n", "E", "r", "r", "o", "r">>,
    <<"N", "a", "m", "e", "E", "r", "r", "o", "r">>,
    <<"T", "y", "p", "e", "E", "r", "r", "o", "r">> }
C_E9999 == <<"E", "9", "9", "9", "9">>

\* The error_matches entries one line of the analysis text contributes
ClassifyLine(line) ==
    LET pylint_match == CodeSearch(line)
        line_match == LineSearch(line)
    IN
    IF pylint_match # None
    THEN <<[code |-> pylint_match,
            line_num |-> Some(Get(line_match, 0)),
            message |-> line]>>
    ELSE IF \E name \in RuntimeErrorNames : Contains(line, name)
    THEN IF line_match # None
         THEN <<[code |-> C_E9999, line_num |-> line_match, message |-> line]>>
         ELSE <<>>
    ELSE <<>>

\* error_matches after the loop over analysis_output.split('\n')
RECURSIVE ErrorMatches(_)
ErrorMatches(report) ==
    IF report = <<>> THEN <<>>
    ELSE ClassifyLine(Head(report)) \o ErrorMatches(Tail(report))

\* The pattern knowledge base, in the order of the dictionary: each pattern
\* is its sequence of literal texts, `.*` (any) and `\d+` (digits); name is
\* pattern.split(':')[0], first_fix is typical_fixes[0].
ERROR_PATTERNS == <<
    [pattern |-> <<[t |-> "lit", s |-> <<"S", "y", "n", "t", "a", "x", "E", "r", "r", "o", "r", ":", " ", "i", "n", "v", "a", "l", "i", "d", " ", "s", "y", "n", "t", "a", "x">>]>>,
     name |-> <<"S", "y", "n", "t", "a", "x", "E", "r", "r", "o", "r">>,
     explanation |-> "Your code has a syntax error, which means Python cannot understand the structure.",
     first_fix |-> "Check for missing colons after if/for/while statements"],
    [pattern |-> <<[t |-> "lit", s |-> <<"S", "y", "n", "t", "a", "x", "E", "r", "r", "o", "r", ":", " ", "e", "x", "p", "e", "c", "t", "e", "d", " ", "'", ":", "'">>]>>,
     name |-> <<"S", "y", "n", "t", "a", "x", "E", "r", "r", "o", "r">>,
     explanation |-> "You're missing a colon at the end of a line with a control statement.",
     first_fix |-> "Add a colon at the end of if, elif, else, for, while, def, or class statements"],
    [pattern |-> <<[t |-> "lit", s |-> <<"I", "n", "d", "e", "n", "t", "a", "t", "i", "o", "n", "E", "r", "r", "o", "r", ":", " ", "e", "x", "p", "e", "c", "t", "e", "d", " ", "a", "n", " ", "i", "n", "d", "e", "n", "t", "e", "d", " ", "b", "l", "o", "c", "k">>]>>,
     name |-> <<"I", "n", "d", "e", "n", "t", "a", "t", "i", "o", "n", "E", "r", "r", "o", "r">>,
     explanation |-> "After a line ending with a colon, the next line must be indented.",
     first_fix |-> "Add 4 spaces or a tab before the line that should be indented"],
    [pattern |-> <<[t |-> "lit", s |-> <<"I", "n", "d", "e", "n", "t", "a", "t", "i", "o", "n", "E", "r", "r", "o", "r", ":", " ", "u", "n", "e", "x", "p", "e", "c", "t", "e", "d", " ", "i", "n", "d", "e", "n", "t">>]>>,
     name |-> <<"I", "n", "d", "e", "n", "t", "a", "t", "i", "o", "n", "E", "r", "r", "o", "r">>,
     explanation |-> "A line is indented when it shouldn't be.",
     first_fix |-> "Remove extra spaces at the beginning of the line"],
    [pattern |-> <<[t |-> "lit", s |-> <<"N", "a", "m", "e", "E", "r", "r", "o", "r", ":", " ", "n", "a", "m", "e", " ">>],
                   [t |-> "any", s |-> <<>>],
                   [t |-> "lit", s |-> <<" ", "i", "s", " ", "n", "o", "t", " ", "d", "e", "f", "i", "n", "e", "d">>]>>,
     name |-> <<"N", "a", "m", "e", "E", "r", "r", "o", "r">>,
     explanation |-> "You're using a variable that hasn't been defined yet.",
     first_fix |-> "Check for typos in variable names"],
    [pattern |-> <<[t |-> "lit", s |-> <<"T", "y", "p", "e", "E", "r", "r", "o", "r", ":", " ">>],
                   [t |-> "any", s |-> <<>>],
                   [t |-> "lit", s |-> <<" ", "t", "a", "k", "e", "s", " ">>],
                   [t |-> "digits", s |-> <<>>],
                   [t |-> "lit", s |-> <<" ", "p", "o", "s", "i", "t", "i", "o", "n", "a", "l", " ", "a", "r", "g", "u", "m", "e", "n", "t", "s", " ", "b", "u", "t", " ">>],
                   [t |-> "digits", s |-> <<>>],
                   [t |-> "lit", s |-> <<" ", "w", "e", "r", "e", " ", "g", "i", "v", "e", "n">>]>>,
     name |-> <<"T", "y", "p", "e", "E", "r", "r", "o", "r">>,
     explanation |-> "You're calling a function with the wrong number of arguments.",
     first_fix |-> "Check the function definition to see how many arguments it needs"],
    [pattern |-> <<[t |-> "lit", s |-> <<"I", "m", "p", "o", "r", "t", "E", "r", "r", "o", "r", ":", " ", "N", "o", " ", "m", "o", "d", "u", "l", "e", " ", "n", "a", "m", "e", "d", " ">>],
                   [t |-> "any", s |-> <<>>]>>,
     name |-> <<"I", "m", "p", "o", "r", "t", "E", "r", "r", "o", "r">>,
     explanation |-> "Python can't find the module you're trying to import.",
     first_fix |-> "Make sure the module name is spelled correctly"],
    [pattern |-> <<[t |-> "lit", s |-> <<"Z", "e", "r", "o", "D", "i", "v", "i", "s", "i", "o", "n", "E", "r", "r", "o", "r", ":", " ", "d", "i", "v", "i", "s", "i", "o", "n", " ", "b", "y", " ", "z", "e", "r", "o">>]>>,
     name |-> <<"Z", "e", "r", "o", "D", "i", "v", "i", "s", "i", "o", "n", "E", "r", "r", "o", "r">>,
     explanation |-> "You're trying to divide a number by zero, which is not allowed in mathematics.",
     first_fix |-> "Add a condition to check if the denominator is zero before performing division"],
    [pattern |-> <<[t |-> "lit", s |-> <<"I", "n", "d", "e", "x", "E", "r", "r", "o", "r", ":", " ", "l", "i", "s", "t", " ", "i", "n", "d", "e", "x", " ", "o", "u", "t", " ", "o", "f", " ", "r", "a", "n", "g", "e">>]>>,
     name |-> <<"I", "n", "d", "e", "x", "E", "r", "r", "o", "r">>,
     explanation |-> "You're trying to access an element at an index that doesn't exist in the list.",
     first_fix |-> "Make sure the index is within the valid range (0 to len(list)-1)"],
    [pattern |-> <<[t |-> "lit", s |-> <<"K", "e", "y", "E", "r", "r", "o", "r", ":", " ">>],
                   [t |-> "any", s |-> <<>>]>>,
     name |-> <<"K", "e", "y", "E", "r", "r", "o", "r">>,
     explanation |-> "You're trying to access a dictionary key that doesn't exist.",
     first_fix |-> "Use dict.get(key) which returns None instead of raising an error"],
    [pattern |-> <<[t |-> "lit", s |-> <<"A", "t", "t", "r", "i", "b", "u", "t", "e", "E", "r", "r", "o", "r", ":", " ">>],
                   [t |-> "any", s |-> <<>>],
                   [t |-> "lit", s |-> <<" ", "h", "a", "s", " ", "n", "o", " ", "a", "t", "t", "r", "i", "b", "u", "t", "e", " ">>],
                   [t |-> "any", s |-> <<>>]>>,
     name |-> <<"A", "t", "t", "r", "i", "b", "u", "t", "e", "E", "r", "r", "o", "r">>,
     explanation |-> "You're trying to access an attribute or method that doesn't exist for this object.",
     first_fix |-> "Check the spelling of the attribute name"],
    [pattern |-> <<[t |-> "lit", s |-> <<"E", "0", "6", "0", "2", ":", " ", "U", "n", "d", "e", "f", "i", "n", "e", "d", " ", "v", "a", "r", "i", "a", "b", "l", "e">>]>>,
     name |-> <<"E", "0", "6", "0", "2">>,
     explanation |-> "Pylint detected you're using a variable that hasn't been defined.",
     first_fix |-> "Define the variable before using it"],
    [pattern |-> <<[t |-> "lit", s |-> <<"W", "0", "6", "1", "1", ":", " ", "U", "n", "u", "s", "e", "d", " ", "i", "m", "p", "o", "r", "t">>]>>,
     name |-> <<"W", "0", "6", "1", "1">>,
     explanation |-> "You've imported a module that isn't used in your code.",
     first_fix |-> "Remove the unused import to keep your code clean"],
    [pattern |-> <<[t |-> "lit", s |-> <<"C", "0", "1", "0", "3", ":", " ", "I", "n", "v", "a", "l", "i", "d", " ", "n", "a", "m", "e">>]>>,
     name |-> <<"C", "0", "1", "0", "3">>,
     explanation |-> "The variable or function name doesn't follow Python naming conventions.",
     first_fix |-> "Use snake_case for variables and functions (lowercase with underscores)"],
    [pattern |-> <<[t |-> "lit", s |-> <<"C", "0", "1", "1", "1", ":", " ", "M", "i", "s", "s", "i", "n", "g", " ", "d", "o", "c", "s", "t", "r", "i", "n", "g">>]>>,
     name |-> <<"C", "0", "1", "1", "1">>,
     explanation |-> "Your function, class, or module is missing a documentation string.",
     first_fix |-> "Add a descriptive docstring enclosed in triple quotes at the beginning of your function, class, or module"],
    [pattern |-> <<[t |-> "lit", s |-> <<"W", "0", "6", "1", "2", ":", " ", "U", "n", "u", "s", "e", "d", " ", "v", "a", "r", "i", "a", "b", "l", "e">>]>>,
     name |-> <<"W", "0", "6", "1", "2">>,
     explanation |-> "You've defined a variable that isn't used anywhere in your code.",
     first_fix |-> "Remove the unused variable"] >>

\* The pattern matches text from position i on ('.' does not match '\n')
RECURSIVE MatchFrom(_, _, _)
MatchFrom(pat, text, i) ==
    IF pat = <<>> THEN TRUE
    ELSE IF Head(pat).t = "lit"
    THEN StartsAt(text, Head(pat).s, i) /\ MatchFrom(Tail(pat), text, i + Len(Head(pat).s))
    ELSE IF Head(pat).t = "any"
    THEN \E j \in i..(Len(text) + 1) :
            /\ \A k \in i..(j - 1) : text[k] # "\n"
            /\ MatchFrom(Tail(pat), text, j)
    ELSE \E n \in 1..DigitRun(text, i) : MatchFrom(Tail(pat), text, i + n)

\* re.search(pattern, text)
PatternSearch(pat, text) == \E i \in 1..(Len(text) + 1) : MatchFrom(pat, text, i)

KBRecord(info) ==
    [issue |-> "Potential issue: ", arg |-> info.name,
     solution |-> <<info.explanation, " ", info.first_fix>>, sarg |-> <<>>]

\* The records the loop over ERROR_PATTERNS appends
RECURSIVE KBLoop(_, _)
KBLoop(entries, text) ==
    IF entries = <<>> THEN <<>>
    ELSE (IF PatternSearch(Head(entries).pattern, text)
          THEN <<KBRecord(Head(entries))>> ELSE <<>>)
         \o KBLoop(Tail(entries), text)

\* re.search(r'def \w+\([^)]*\):\s*[\'"]', text)
T_def == <<"d", "e", "f">>
T_def_ == <<"d", "e", "f", " ">>
DocstringAt(text, i) ==
    /\ StartsAt(text, T_def_, i)
    /\ WordRun(text, i + 4) >= 1
    /\ LET open == i + 4 + WordRun(text, i + 4) IN
       /\ open <= Len(text)
       /\ text[open] = "("
       /\ \E close \in (open + 1)..Len(text) :
             /\ text[close] = ")"
             /\ \A k \in (open + 1)..(close - 1) : text[k] # ")"
             /\ close + 1 <= Len(text)
             /\ text[close + 1] = ":"
             /\ LET q == close + 2 + SpaceRun(text, close + 2) IN
                q <= Len(text) /\ text[q] \in {"'", "\""}
DocstringRegex(text) == \E i \in 1..Len(text) : DocstringAt(text, i)

\* re.search(r'except [A-Za-z]+:', text)
T_except_colon == <<"e", "x", "c", "e", "p", "t", ":">>
T_except_ == <<"e", "x", "c", "e", "p", "t", " ">>
RECURSIVE LetterRun(_, _)
LetterRun(s, i) ==
    IF i > Len(s) \/ s[i] \notin LowerCh \cup UpperCh THEN 0 ELSE 1 + LetterRun(s, i + 1)
NamedExceptRegex(text) ==
    \E i \in 1..Len(text) :
        /\ StartsAt(text, T_except_, i)
        /\ LetterRun(text, i + 7) >= 1
        /\ StartsAt(text, <<":">>, i + 7 + LetterRun(text, i + 7))

\* The best-practice heuristics dropping the docstring test
best_practices_NoDocTest(text) ==
    (IF Contains(text, T_def)
     THEN <<Record("Missing docstrings", <<>>,
                   "Add descriptive docstrings to your functions to explain what they do", <<>>)>>
     ELSE <<>>)
    \o
    (IF Contains(text, T_except_colon) /\ ~NamedExceptRegex(text)
     THEN <<Record("Bare except clause", <<>>,
                   "Specify the exceptions you want to catch instead of catching all exceptions", <<>>)>>
     ELSE <<>>)

\* The records of the best-practice heuristics
best_practices(text) ==
    (IF Contains(text, T_def) /\ ~DocstringRegex(text)
     THEN <<Record("Missing docstrings", <<>>,
                   "Add descriptive docstrings to your functions to explain what they do", <<>>)>>
     ELSE <<>>)
    \o
    (IF Contains(text, T_except_colon) /\ ~NamedExceptRegex(text)
     THEN <<Record("Bare except clause", <<>>,
                   "Specify the exceptions you want to catch instead of catching all exceptions", <<>>)>>
     ELSE <<>>)

E_Syntax == "Your code has syntax errors that need to be fixed before it can run."
L_Syntax == "Always check for syntax errors first. Python won't run your code until all syntax errors are fixed."
NoIssuesRecord == Record("No specific issues found", <<>>, "Your code looks good!", <<>>)

\* The sources the engine is run on, each with what ast.parse does on it
\* (CPython 3.11): success, or the SyntaxError's lineno and those of the
\* phrases of fix_syntax_errors that its message holds.
Programs == {
    \* ''  --  parses
    [src |-> <<<<>>>>,
     parse |-> [ok |-> TRUE, line |-> None, message |-> {}]],
    \* 'x = 1'  --  parses
    [src |-> <<<<"x", " ", "=", " ", "1">>>>,
     parse |-> [ok |-> TRUE, line |-> None, message |-> {}]],
    \* 'def f():\n  return 1'  --  parses
    [src |-> <<<<"d", "e", "f", " ", "f", "(", ")", ":">>, <<" ", " ", "r", "e", "t", "u", "r", "n", " ", "1">>>>,
     parse |-> [ok |-> TRUE, line |-> None, message |-> {}]],
    \* "def f():\n  'd'\n  return 1"  --  parses
    [src |-> <<<<"d", "e", "f", " ", "f", "(", ")", ":">>, <<" ", " ", "'", "d", "'">>, <<" ", " ", "r", "e", "t", "u", "r", "n", " ", "1">>>>,
     parse |-> [ok |-> TRUE, line |-> None, message |-> {}]],
    \* 'try:\n  x = 1\nexcept:\n  pass'  --  parses
    [src |-> <<<<"t", "r", "y", ":">>, <<" ", " ", "x", " ", "=", " ", "1">>, <<"e", "x", "c", "e", "p", "t", ":">>, <<" ", " ", "p", "a", "s", "s">>>>,
     parse |-> [ok |-> TRUE, line |-> None, message |-> {}]],
    \* 'try:\n  x = 1\nexcept E:\n  pass'  --  parses
    [src |-> <<<<"t", "r", "y", ":">>, <<" ", " ", "x", " ", "=", " ", "1">>, <<"e", "x", "c", "e", "p", "t", " ", "E", ":">>, <<" ", " ", "p", "a", "s", "s">>>>,
     parse |-> [ok |-> TRUE, line |-> None, message |-> {}]],
    \* 'if T\n  p(1)'  --  SyntaxError: expected ':'
    [src |-> <<<<"i", "f", " ", "T">>, <<" ", " ", "p", "(", "1", ")">>>>,
     parse |-> [ok |-> FALSE, line |-> Some(1), message |-> {"expected ':'"}]],
    \* 'x = = 1'  --  SyntaxError: invalid syntax
    [src |-> <<<<"x", " ", "=", " ", "=", " ", "1">>>>,
     parse |-> [ok |-> FALSE, line |-> Some(1), message |-> {}]],
    \* 'a\x00b'  --  SyntaxError: source code string cannot contain null bytes
    [src |-> <<<<"a", "NUL", "b">>>>,
     parse |-> [ok |-> FALSE, line |-> None, message |-> {}]],
    \* 'if x:\n  pass\nelse'  --  SyntaxError: expected ':'
    [src |-> <<<<"i", "f", " ", "x", ":">>, <<" ", " ", "p", "a", "s", "s">>, <<"e", "l", "s", "e">>>>,
     parse |-> [ok |-> FALSE, line |-> Some(3), message |-> {"expected ':'"}]],
    \* '  y = 1'  --  IndentationError: unexpected indent
    [src |-> <<<<" ", " ", "y", " ", "=", " ", "1">>>>,
     parse |-> [ok |-> FALSE, line |-> Some(1), message |-> {"unexpected indent"}]],
    \* 'def f():\nreturn 1'  --  IndentationError: expected an indented block after function definition on line 1
    [src |-> <<<<"d", "e", "f", " ", "f", "(", ")", ":">>, <<"r", "e", "t", "u", "r", "n", " ", "1">>>>,
     parse |-> [ok |-> FALSE, line |-> Some(2), message |-> {"expected an indented block"}]],
    \* 'x = ] ('  --  SyntaxError: unmatched ']'
    [src |-> <<<<"x", " ", "=", " ", "]", " ", "(">>>>,
     parse |-> [ok |-> FALSE, line |-> Some(1), message |-> {"unmatched"}]],
    \* "print('def')"  --  parses
    [src |-> <<<<"p", "r", "i", "n", "t", "(", "'", "d", "e", "f", "'", ")">>>>,
     parse |-> [ok |-> TRUE, line |-> None, message |-> {}]],
    \* 'import os'  --  parses
    [src |-> <<<<"i", "m", "p", "o", "r", "t", " ", "o", "s">>>>,
     parse |-> [ok |-> TRUE, line |-> None, message |-> {}]] }

\* ast.parse(code)
ast_parse(c) == (CHOOSE p \in Programs : p.src = c).parse

\* `x or default` for a string
OrDefault(x, default) == IF x = "" THEN default ELSE x

\* syntax_errors after the try around ast.parse
SyntaxErrorsOf(parse) ==
    IF parse.ok THEN <<>> ELSE <<[line |-> parse.line, message |-> parse.message]>>

\* The state after the `if syntax_errors:` block
SyntaxBranch(fixed) ==
    [raised |-> fixed.raised, improved_code |-> fixed.lines,
     improvements |-> fixed.improvements,
     explanation |-> E_Syntax, learning_tip |-> L_Syntax]

\* The state after the `elif error_matches:` block
LintBranch(fixed) ==
    [raised |-> NoException, improved_code |-> fixed.lines,
     improvements |-> fixed.improvements,
     explanation |-> "Your code has some style and potential logical issues that should be addressed.", learning_tip |-> "Following Python style guidelines makes your code more readable and less prone to errors."]

\* The if/elif over syntax_errors and error_matches
RepairBranch(c, syntax_errors, error_matches) ==
    IF syntax_errors # <<>> THEN SyntaxBranch(fix_syntax_errors(c, syntax_errors))
    ELSE IF error_matches # <<>> THEN LintBranch(fix_pylint_errors(c, error_matches))
    ELSE [raised |-> NoException, improved_code |-> c, improvements |-> <<>>,
          explanation |-> "", learning_tip |-> ""]

\* `if not improvements and (error_count > 0 or warning_count > 0)`
KBFallback(s, output, ecount, wcount) ==
    IF s.improvements = <<>> /\ (ecount > 0 \/ wcount > 0)
    THEN [s EXCEPT !.explanation = "The analysis found some issues in your code. Review the error messages for details.", !.learning_tip = "Read error messages carefully - they often tell you exactly what's wrong and where to look.",
                   !.improvements = KBLoop(ERROR_PATTERNS, JoinLines(output))]
    ELSE s

\* `if not improvements`: the best-practice block
BestPracticeBlock(s, c) ==
    IF s.improvements = <<>>
    THEN [s EXCEPT !.improvements = best_practices(JoinLines(c)),
                   !.explanation = "Your code has no major issues, but here are some best practices to consider.",
                   !.learning_tip = "Even working code can be improved for readability, maintainability, and efficiency."]
    ELSE s

\* The returned dictionary, or the exception the syntax pass raised
Response(s) ==
    IF s.raised # NoException
    THEN [raised |-> s.raised]
    ELSE [raised |-> NoException,
          improved_code |-> s.improved_code,
          explanation |-> OrDefault(s.explanation, "I've analyzed your code and made some improvements."),
          improvements |-> IF s.improvements = <<>> THEN <<NoIssuesRecord>>
                           ELSE s.improvements,
          learning_tip |-> OrDefault(s.learning_tip, "Always test your code thoroughly, even when it looks correct.")]

get_improvement_suggestions(c, output, ecount, wcount) ==
    Response(
        BestPracticeBlock(
            KBFallback(
                RepairBranch(c, SyntaxErrorsOf(ast_parse(c)), ErrorMatches(output)),
                output, ecount, wcount),
            c))

\* Lines of analysis text offered to the engine
ReportLines == {
    <<>>,
    <<"L", "i", "n", "e", " ", "1", ",", " ", "C", "o", "l", " ", "5", ":", " ", "S", "y", "n", "t", "a", "x", "E", "r", "r", "o", "r", ":", " ", "i", "n", "v", "a", "l", "i", "d", " ", "s", "y", "n", "t", "a", "x">>,
    <<"t", ".", "p", "y", ":", "1", ":", "0", ":", " ", "E", "0", "6", "0", "2", ":", " ", "U", "n", "d", "e", "f", "i", "n", "e", "d", " ", "v", "a", "r", "i", "a", "b", "l", "e", " ", "'", "x", "'">>,
    <<"E", "0", "6", "0", "2", " ", "l", "i", "n", "e", " ", "1", ":", " ", "U", "n", "d", "e", "f", "i", "n", "e", "d", " ", "v", "a", "r", "i", "a", "b", "l", "e", " ", "'", "x", "'">>,
    <<"W", "0", "6", "1", "1", " ", "l", "i", "n", "e", " ", "1", ":", " ", "U", "n", "u", "s", "e", "d", " ", "i", "m", "p", "o", "r", "t", " ", "o", "s">>,
    <<"N", "a", "m", "e", "E", "r", "r", "o", "r", " ", "a", "t", " ", "l", "i", "n", "e", " ", "1">>,
    <<"-", " ", "U", "n", "r", "e", "a", "c", "h", "a", "b", "l", "e", " ", "c", "o", "d", "e", " ", "d", "e", "t", "e", "c", "t", "e", "d", ".">>,
    <<"N", "a", "m", "e", "E", "r", "r", "o", "r", ":", " ", "n", "a", "m", "e", " ", "'", "x", "'", " ", "i", "s", " ", "n", "o", "t", " ", "d", "e", "f", "i", "n", "e", "d">>,
    <<"C", "0", "1", "0", "3", " ", "l", "i", "n", "e", " ", "1">> }

InitSuggest ==
    /\ pc = "suggest"
    /\ code \in {p.src : p \in Programs}
    /\ analysis_output \in SeqsOf(ReportLines, 1, MaxReport)
    /\ error_count \in 0..MaxCount
    /\ warning_count \in 0..MaxCount
    /\ result = NoResult
    /\ errors = <<>>
    /\ lines = <<>>
    /\ improvements = <<>>
    /\ origin = <<>>
    /\ last = NoStep
    /\ impl = "ai_helper"
    /\ parsed = <<>>
    /\ pylint = <<>>
    /\ calls = <<>>
    /\ endpoints = <<>>

\* One call of get_improvement_suggestions
Suggest ==
    /\ pc = "suggest"
    /\ result' = get_improvement_suggestions(code, analysis_output, error_count, warning_count)
    /\ errors' = ErrorMatches(analysis_output)
    /\ pc' = IF result'.raised = NoException THEN "returned" ELSE "raised"
    /\ UNCHANGED <<code, lines, improvements, origin, last, suggestVars, analyzeVars, endpoints>>

NextSuggest == Suggest
SpecSuggest == InitSuggest /\ [][NextSuggest]_vars

(***************************************************************************)
(* The smell detectors of app.py, over the abstract syntax tree.           *)
(***************************************************************************)
\* An ast node: its class, the operator of a BinOp, the value of a Constant
\* and its child nodes by field (args.defaults, body, and the operand
\* expressions value/left/right/func).
Node(type, op, value, defaults, body, operands) ==
    [type |-> type, op |-> op, value |-> value,
     defaults |-> defaults, body |-> body, operands |-> operands]

\* ast.NodeVisitor.generic_visit: the children, in field order
Children(node) == node.defaults \o node.body \o node.operands

\* DivisionVisitor: visit_BinOp on every BinOp, generic_visit elsewhere
RECURSIVE DivisionVisit(_)
DivisionVisit(node) ==
    \/ /\ node.type = "BinOp"
       /\ node.op \in {"Div", "FloorDiv", "Mod"}
       /\ node.operands[2].type = "Constant"
       /\ node.operands[2].value = 0
    \/ \E i \in 1..Len(Children(node)) : DivisionVisit(Children(node)[i])

check_division_by_zero(tree) == DivisionVisit(tree)

\* The loop of visit_FunctionDef over node.body from 1-based position i on
RECURSIVE ReturnScan(_, _, _)
ReturnScan(body, i, has_return) ==
    IF i > Len(body) THEN FALSE
    ELSE IF body[i].type = "Return" THEN ReturnScan(body, i + 1, TRUE)
    ELSE IF has_return /\ (i - 1) < Len(body) - 1 THEN TRUE
    ELSE ReturnScan(body, i + 1, has_return)

\* UnreachableVisitor: visit_FunctionDef on every FunctionDef
RECURSIVE UnreachableVisit(_)
UnreachableVisit(node) ==
    \/ node.type = "FunctionDef" /\ ReturnScan(node.body, 1, FALSE)
    \/ \E i \in 1..Len(Children(node)) : UnreachableVisit(Children(node)[i])

check_unreachable_code(tree) == UnreachableVisit(tree)

\* MutableDefaultVisitor: visit_FunctionDef on every FunctionDef
RECURSIVE MutableDefaultVisit(_)
MutableDefaultVisit(node) ==
    \/ /\ node.type = "FunctionDef"
       /\ \E i \in 1..Len(node.defaults) : node.defaults[i].type \in {"List", "Dict", "Set"}
    \/ \E i \in 1..Len(Children(node)) : MutableDefaultVisit(Children(node)[i])

check_mutable_default_args(tree) == MutableDefaultVisit(tree)

\* A dictionary of counts: d[k] = d.get(k, 0) + n
Bump(d, k, n) ==
    [x \in (DOMAIN d) \cup {k} |-> IF x = k THEN (IF k \in DOMAIN d THEN d[k] ELSE 0) + n
                                  ELSE d[x]]
EmptyDict == [x \in {} |-> 0]

K_syntax == <<"s", "y", "n", "t", "a", "x">>
K_system == <<"s", "y", "s", "t", "e", "m">>
K_logic == <<"l", "o", "g", "i", "c">>
K_error == <<"e", "r", "r", "o", "r">>
K_warning == <<"w", "a", "r", "n", "i", "n", "g">>
K_style == <<"s", "t", "y", "l", "e">>

T_LogicalHeader == <<"A", "d", "d", "i", "t", "i", "o", "n", "a", "l", " ", "l", "o", "g", "i", "c", "a", "l", " ", "c", "h", "e", "c", "k", "s", ":">>
T_DivisionIssue ==
    <<"-", " ", "P", "o", "t", "e", "n", "t", "i", "a", "l", " ", "d", "i", "v", "i", "s", "i", "o", "n", " ", "b", "y", " ", "z", "e", "r", "o", " ", "d", "e", "t", "e", "c", "t", "e", "d", ".", " ", "A", "l", "w", "a", "y", "s", " ", "c", "h", "e", "c", "k", " ", "i", "f", " ", "d", "i", "v", "i", "s", "o", "r", " ", "i", "s", " ", "z", "e", "r", "o", " ", "b", "e", "f", "o", "r", "e", " ", "d", "i", "v", "i", "s", "i", "o", "n", ".">>
T_UnreachableIssue ==
    <<"-", " ", "U", "n", "r", "e", "a", "c", "h", "a", "b", "l", "e", " ", "c", "o", "d", "e", " ", "d", "e", "t", "e", "c", "t", "e", "d", ".", " ", "C", "o", "d", "e", " ", "a", "f", "t", "e", "r", " ", "r", "e", "t", "u", "r", "n", "/", "b", "r", "e", "a", "k", "/", "c", "o", "n", "t", "i", "n", "u", "e", " ", "s", "t", "a", "t", "e", "m", "e", "n", "t", "s", " ", "w", "i", "l", "l", " ", "n", "e", "v", "e", "r", " ", "e", "x", "e", "c", "u", "t", "e", ".">>
T_MutableIssue ==
    <<"-", " ", "M", "u", "t", "a", "b", "l", "e", " ", "d", "e", "f", "a", "u", "l", "t", " ", "a", "r", "g", "u", "m", "e", "n", "t", " ", "d", "e", "t", "e", "c", "t", "e", "d", ".", " ", "U", "s", "i", "n", "g", " ", "m", "u", "t", "a", "b", "l", "e", " ", "o", "b", "j", "e", "c", "t", "s", " ", "a", "s", " ", "d", "e", "f", "a", "u", "l", "t", " ", "a", "r", "g", "u", "m", "e", "n", "t", "s", " ", "c", "a", "n", " ", "l", "e", "a", "d", " ", "t", "o", " ", "u", "n", "e", "x", "p", "e", "c", "t", "e", "d", " ", "b", "e", "h", "a", "v", "i", "o", "r", ".">>

\* a + b for two texts held as lines: the last line of a runs into the first of b
ConcatText(a, b) ==
    SubSeq(a, 1, Len(a) - 1) \o <<a[Len(a)] \o b[1]>> \o Tail(b)
EmptyText == << <<>> >>

EmptyResult ==
    [error_count |-> 0, warning_count |-> 0, error_types |-> EmptyDict, output |-> EmptyText]

\* One `if <finding>:` block of check_logical_issues that records the
\* 'logic' type only once
LogicalFinding_Once(r, found, text) ==
    IF found
    THEN [r EXCEPT !.issues = Append(r.issues, text),
                   !.warning_count = r.warning_count + 1,
                   !.error_types = IF K_logic \in DOMAIN r.error_types
                                   THEN r.error_types
                                   ELSE Bump(r.error_types, K_logic, 1)]
    ELSE r

\* One `if <finding>:` block of check_logical_issues
LogicalFinding(r, found, text) ==
    IF found
    THEN [r EXCEPT !.issues = Append(r.issues, text),
                   !.warning_count = r.warning_count + 1,
                   !.error_types = Bump(r.error_types, K_logic, 1)]
    ELSE r

\* check_logical_issues on a source that ast.parse turns into p; a source
\* that does not parse leaves the result empty (the except branch)
check_logical_issues(p) ==
    LET r0 == [error_count |-> 0, warning_count |-> 0, error_types |-> EmptyDict,
               issues |-> <<>>]
        r1 == LogicalFinding(r0, check_division_by_zero(p.tree), T_DivisionIssue)
        r2 == LogicalFinding(r1, check_unreachable_code(p.tree), T_UnreachableIssue)
        r3 == LogicalFinding(r2, check_mutable_default_args(p.tree), T_MutableIssue)
        r == IF p.ok THEN r3 ELSE r0
    IN [error_count |-> r.error_count,
        warning_count |-> r.warning_count,
        error_types |-> r.error_types,
        output |-> IF r.issues = <<>> THEN EmptyText ELSE <<T_LogicalHeader>> \o r.issues]

(***************************************************************************)
(* The analysis pipeline: analyze_python_code of app.py and analyzer.py.   *)
(***************************************************************************)
\* One pass of run_pylint_analysis' loop over pylint_output.split('\n')
CountLine(acc, line) ==
    IF Contains(line, <<":">>) /\ CodeSearch(line) # None
    THEN LET category == CodeSearch(line)[1] IN
         IF category = "E" \/ category = "F"
         THEN [acc EXCEPT !.error_count = acc.error_count + 1,
                          !.error_types = Bump(acc.error_types, K_error, 1)]
         ELSE IF category = "W"
         THEN [acc EXCEPT !.warning_count = acc.warning_count + 1,
                          !.error_types = Bump(acc.error_types, K_warning, 1)]
         ELSE [acc EXCEPT !.warning_count = acc.warning_count + 1,
                          !.error_types = Bump(acc.error_types, K_style, 1)]
    ELSE acc

RECURSIVE CountLoop(_, _)
CountLoop(acc, ls) ==
    IF ls = <<>> THEN acc ELSE CountLoop(CountLine(acc, Head(ls)), Tail(ls))

T_ErrorRunningPylint == <<"E", "r", "r", "o", "r", " ", "r", "u", "n", "n", "i", "n", "g", " ", "p", "y", "l", "i", "n", "t", ":", " ">>

\* run_pylint_analysis when the pylint process does run: run.ok and its
\* standard output run.stdout, or fails to start
run_pylint_analysis(run) ==
    IF run.ok
    THEN LET acc == CountLoop([error_count |-> 0, warning_count |-> 0,
                               error_types |-> EmptyDict], run.stdout)
         IN [error_count |-> acc.error_count, warning_count |-> acc.warning_count,
             error_types |-> acc.error_types, output |-> run.stdout]
    ELSE [error_count |-> 1, warning_count |-> 0,
          error_types |-> Bump(EmptyDict, K_system, 1),
          output |-> <<T_ErrorRunningPylint>>]

\* str.split(sep) for a one-character separator
RECURSIVE SplitOn(_, _)
SplitOn(str, sep) ==
    LET P(i) == str[i] = sep
        i == Leftmost(str, P)
    IN IF i = 0 THEN <<str>>
       ELSE <<SubSeq(str, 1, i - 1)>> \o SplitOn(Suffix(str, i), sep)

\* str.strip()
strip(str) == lstrip(rstrip(str))

\* str.split(): the whitespace-separated words
RECURSIVE Words(_)
Words(str) ==
    LET t == lstrip(str)
        P(i) == IsSpace(t[i])
        i == Leftmost(t, P)
    IN IF t = <<>> THEN <<>>
       ELSE IF i = 0 THEN <<t>>
       ELSE <<SubSeq(t, 1, i - 1)>> \o Words(Suffix(t, i))

\* One pass of the analyzer.py loop over pylint_output.stdout.split('\n')
AnalyzerLine(acc, line) ==
    IF Contains(line, <<":">>) /\ Len(SplitOn(line, ":")) >= 3
    THEN LET parts == SplitOn(line, ":")
             words == Words(strip(parts[3]))
         IN IF words = <<>> THEN [acc EXCEPT !.raised = "IndexError"]
            ELSE LET error_type == words[1]
                     counted ==
                        IF StartsAt(error_type, <<"E">>, 1)
                        THEN [acc EXCEPT !.error_count = acc.error_count + 1,
                                         !.error_types = Bump(acc.error_types, error_type, 1)]
                        ELSE IF StartsAt(error_type, <<"W">>, 1)
                        THEN [acc EXCEPT !.warning_count = acc.warning_count + 1,
                                         !.error_types = Bump(acc.error_types, error_type, 1)]
                        ELSE acc
                 IN [counted EXCEPT !.output = ConcatText(acc.output, <<line, <<>>>>)]
    ELSE acc

RECURSIVE AnalyzerLoop(_, _)
AnalyzerLoop(acc, ls) ==
    IF ls = <<>> \/ acc.raised # NoException THEN acc
    ELSE AnalyzerLoop(AnalyzerLine(acc, Head(ls)), Tail(ls))

\* The abstract syntax trees offered to the pipeline: a module holding one
\* function, with or without a list default, whose body is up to MaxBody
\* statements, or holding one plain statement, or nothing.
FunctionDef(defaults, body) == Node("FunctionDef", "", 0, defaults, body, <<>>)
Module(body) == Node("Module", "", 0, <<>>, body, <<>>)

\* return 1;  p();  x / 0;  def g(): return 1; p(); p()
Statements ==
    LET N_Name == Node("Name", "", 0, <<>>, <<>>, <<>>)
        N_Zero == Node("Constant", "", 0, <<>>, <<>>, <<>>)
        N_One == Node("Constant", "", 1, <<>>, <<>>, <<>>)
        N_Call == Node("Call", "", 0, <<>>, <<>>, <<N_Name>>)
        N_DivZero == Node("BinOp", "Div", 0, <<>>, <<>>, <<N_Name, N_Zero>>)
        S_Return == Node("Return", "", 0, <<>>, <<>>, <<N_One>>)
        S_Call == Node("Expr", "", 0, <<>>, <<>>, <<N_Call>>)
        S_DivZero == Node("Expr", "", 0, <<>>, <<>>, <<N_DivZero>>)
        S_InnerDef == FunctionDef(<<>>, <<S_Return, S_Call, S_Call>>)
    IN {S_Return, S_Call, S_DivZero, S_InnerDef}

Trees ==
    {Module(<<FunctionDef(d, b)>>) :
        d \in {<<>>, << Node("List", "", 0, <<>>, <<>>, <<>>) >>},
        b \in SeqsOf(Statements, 1, MaxBody)}
    \cup {Module(<<s>>) : s \in Statements}
    \cup {Module(<<>>)}

\* What ast.parse does: a tree, or a SyntaxError with its lineno, offset, msg
T_InvalidSyntax == <<"i", "n", "v", "a", "l", "i", "d", " ", "s", "y", "n", "t", "a", "x">>
ParseOutcomes ==
    {[ok |-> TRUE, lineno |-> None, offset |-> None, msg |-> <<>>, tree |-> t] : t \in Trees}
    \cup {[ok |-> FALSE, lineno |-> l, offset |-> o, msg |-> T_InvalidSyntax,
           tree |-> Module(<<>>)] : l \in {None, Some(1), Some(2)}, o \in {None, Some(5)}}

\* Lines the pylint process prints
PylintLines == {
    <<>>,
    <<"*", "*", "*", "*", "*", "*", "*", "*", "*", "*", "*", "*", "*", " ", "M", "o", "d", "u", "l", "e", " ", "t">>,
    <<"t", ".", "p", "y", ":", "1", ":", "0", ":", " ", "E", "0", "6", "0", "2", ":", " ", "U", "n", "d", "e", "f", "i", "n", "e", "d", " ", "v", "a", "r", "i", "a", "b", "l", "e", " ", "'", "x", "'">>,
    <<"t", ".", "p", "y", ":", "1", ":", "0", ":", " ", "W", "0", "6", "1", "1", ":", " ", "U", "n", "u", "s", "e", "d", " ", "i", "m", "p", "o", "r", "t", " ", "o", "s">>,
    <<"t", ".", "p", "y", ":", "1", ":", "0", ":", " ", "C", "0", "1", "0", "3", ":", " ", "I", "n", "v", "a", "l", "i", "d", " ", "n", "a", "m", "e">>,
    <<"t", ".", "p", "y", ":", "1", ":", "0", ":", " ", "R", "0", "9", "1", "2", ":", " ", "T", "o", "o", " ", "m", "a", "n", "y", " ", "b", "r", "a", "n", "c", "h", "e", "s">>,
    <<"t", ".", "p", "y", ":", "1", ":", "0", ":", " ", "F", "0", "0", "0", "1", ":", " ", "N", "o", " ", "m", "o", "d", "u", "l", "e">>,
    <<"t", ".", "p", "y", ":", "1", ":", "E", "0", "6", "0", "2", ":", " ", "U", "n", "d", "e", "f", "i", "n", "e", "d", " ", "v", "a", "r", "i", "a", "b", "l", "e", " ", "'", "x", "'">>,
    <<"t", ".", "p", "y", ":", "1", ":", " ", ":", " ", "C", "0", "1", "0", "3">> }
PylintRuns ==
    {[ok |-> TRUE, stdout |-> o] : o \in SeqsOf(PylintLines, 1, MaxOutput)}
    \cup {[ok |-> FALSE, stdout |-> EmptyText]}

InitAnalyze ==
    /\ pc = "parse"
    /\ impl \in {"app", "analyzer"}
    /\ parsed \in ParseOutcomes
    /\ pylint \in PylintRuns
    /\ calls = <<>>
    /\ endpoints = <<>>
    /\ result = EmptyResult
    /\ code = <<>>
    /\ errors = <<>>
    /\ lines = <<>>
    /\ improvements = <<>>
    /\ origin = <<>>
    /\ last = NoStep
    /\ analysis_output = <<>>
    /\ error_count = 0
    /\ warning_count = 0

T_Line == <<"L", "i", "n", "e", " ">>
T_Col == <<",", " ", "C", "o", "l", " ">>
T_SyntaxError == <<":", " ", "S", "y", "n", "t", "a", "x", "E", "r", "r", "o", "r", ":", " ">>

\* `x or default` for an optional integer
OrInt(x, default) == IF x = None \/ x = Some(0) THEN default ELSE x[1]

\* The result of the `except SyntaxError` branch of step 1
SyntaxResult(e) ==
    LET line_num == OrInt(e.lineno, 1)
        col_num == OrInt(e.offset, 0)
        error_msg == T_Line \o Str(line_num) \o T_Col \o Str(col_num)
                     \o T_SyntaxError \o e.msg
    IN [error_count |-> 1, warning_count |-> 0,
        error_types |-> Bump(EmptyDict, K_syntax, 1),
        output |-> ConcatText(EmptyText, <<error_msg, <<>>>>)]

\* Step 1 going on to the linter after a syntax error
Parse_NoReturn ==
    /\ pc = "parse"
    /\ calls' = Append(calls, "ast.parse")
    /\ result' = IF parsed.ok THEN result ELSE SyntaxResult(parsed)
    /\ pc' = "pylint"
    /\ UNCHANGED <<code, repairVars, suggestVars, impl, parsed, pylint, endpoints>>

\* Step 1 of analyze_python_code (the same in both modules): ast.parse and
\* the early return on a SyntaxError
Parse ==
    /\ pc = "parse"
    /\ calls' = Append(calls, "ast.parse")
    /\ IF parsed.ok
       THEN pc' = "pylint" /\ result' = result
       ELSE pc' = "done" /\ result' = SyntaxResult(parsed)
    /\ UNCHANGED <<code, repairVars, suggestVars, impl, parsed, pylint, endpoints>>

\* Step 2 of app.py: run_pylint_analysis and the copy of its counts
RunPylint ==
    /\ pc = "pylint"
    /\ impl = "app"
    /\ calls' = Append(calls, "pylint")
    /\ result' = run_pylint_analysis(pylint)
    /\ pc' = "logical"
    /\ UNCHANGED <<code, repairVars, suggestVars, impl, parsed, pylint, endpoints>>

\* dict + dict of counts, key by key
MergeTypes(d, e) ==
    [x \in (DOMAIN d) \cup (DOMAIN e) |->
        (IF x \in DOMAIN d THEN d[x] ELSE 0) + (IF x \in DOMAIN e THEN e[x] ELSE 0)]

\* Step 3 of app.py: check_logical_issues and the merge of its findings
CheckLogical ==
    /\ pc = "logical"
    /\ impl = "app"
    /\ calls' = Append(calls, "check_logical_issues")
    /\ LET logical_issues == check_logical_issues(parsed) IN
       result' = IF logical_issues.output # EmptyText
                 THEN [error_count |-> result.error_count + logical_issues.error_count,
                       warning_count |-> result.warning_count + logical_issues.warning_count,
                       error_types |-> MergeTypes(result.error_types, logical_issues.error_types),
                       output |-> ConcatText(result.output,
                                             ConcatText(<< <<>>, <<>> >>, logical_issues.output))]
                 ELSE result
    /\ pc' = "done"
    /\ UNCHANGED <<code, repairVars, suggestVars, impl, parsed, pylint, endpoints>>

\* Step 2 of analyzer.py: run pylint and count its lines; a pylint that
\* cannot be started, or a blank third field, raises out of the function
AnalyzerPylint ==
    /\ pc = "pylint"
    /\ impl = "analyzer"
    /\ calls' = Append(calls, "pylint")
    /\ LET acc == IF pylint.ok
                  THEN AnalyzerLoop([error_count |-> 0, warning_count |-> 0,
                                     error_types |-> EmptyDict, output |-> EmptyText,
                                     raised |-> NoException], pylint.stdout)
                  ELSE [error_count |-> 0, warning_count |-> 0,
                        error_types |-> EmptyDict, output |-> EmptyText,
                        raised |-> "FileNotFoundError"]
       IN /\ result' = [error_count |-> acc.error_count,
                        warning_count |-> acc.warning_count,
                        error_types |-> acc.error_types, output |-> acc.output]
          /\ pc' = IF acc.raised = NoException THEN "done" ELSE "raised"
    /\ UNCHANGED <<code, repairVars, suggestVars, impl, parsed, pylint, endpoints>>

NextAnalyze == Parse \/ RunPylint \/ CheckLogical \/ AnalyzerPylint
SpecAnalyze == InitAnalyze /\ [][NextAnalyze]_vars

(***************************************************************************)
(* try_local_ai_suggestion: the external suggestion fallback.              *)
(***************************************************************************)
\* One `try:` block of try_local_ai_suggestion on the answer r of its
\* endpoint: requests.post raises r.raises or answers r.status_code;
\* response.json() raises or gives r.json; r.text is the string at
\* result['response'] (result['choices'][0]['message']['content']), if any.
\* The outer handler catches requests.exceptions.RequestException, the
\* inner one every Exception.
Attempt(r) ==
    LET RequestException == {"ConnectionError", "Timeout", "JSONDecodeError"}
        Handled(e) == IF e \in RequestException
                      THEN [outcome |-> "next"]
                      ELSE [outcome |-> "raise", exception |-> e]
        \* re.search(r'\{.*\}', text, re.DOTALL).group(0), or None
        BraceSearch(text) ==
            LET opens == {i \in 1..Len(text) : text[i] = "{"}
                closes == {j \in 1..Len(text) : text[j] = "}"} IN
            IF \E i \in opens, j \in closes : i < j
            THEN LET i == CHOOSE a \in opens : \A b \in opens : a <= b
                     j == CHOOSE a \in closes : \A b \in closes : b <= a
                 IN Some(SubSeq(text, i, j))
            ELSE None
        \* json.loads raises unless the string is a JSON document
        json_loads_ok(str) == str \in {<<"{", "\"", "a", "\"", ":", " ", "1", "}">>}
        \* the inner try: every exception is caught and printed
        Inner ==
            IF r.json # "dict" \/ r.text = None THEN [outcome |-> "next"]
            ELSE IF BraceSearch(r.text[1]) = None THEN [outcome |-> "next"]
            ELSE IF json_loads_ok(BraceSearch(r.text[1])[1])
                 THEN [outcome |-> "return", value |-> BraceSearch(r.text[1])]
                 ELSE [outcome |-> "next"]
    IN
    IF r.raises # NoException THEN Handled(r.raises)
    ELSE IF r.status_code # 200 THEN [outcome |-> "next"]
    ELSE IF r.json = "JSONDecodeError" THEN Handled("JSONDecodeError")
    ELSE Inner

\* The answers an endpoint can give: no connection, a timeout, an error
\* status, a body that is not JSON, JSON without the expected field, and
\* JSON whose text field holds one of a few strings
Responses ==
    {[raises |-> e, status_code |-> 0, json |-> "none", text |-> None] :
        e \in {"ConnectionError", "Timeout"}}
    \cup {[raises |-> NoException, status_code |-> 404, json |-> "dict",
           text |-> Some(<<"{", "\"", "a", "\"", ":", " ", "1", "}">>)]}
    \cup {[raises |-> NoException, status_code |-> 200, json |-> j, text |-> None] :
            j \in {"JSONDecodeError", "list", "dict"}}
    \cup {[raises |-> NoException, status_code |-> 200, json |-> "dict", text |-> Some(t)] :
            t \in { <<>>,
                    <<"n", "o", " ", "b", "r", "a", "c", "e", "s">>,
                    <<"{", "\"", "a", "\"", ":", " ", "1", "}">>,
                    <<"x", " ", "{", "\"", "a", "\"", ":", " ", "1", "}", " ", "y">>,
                    <<"{", "a", "}">>,
                    <<"}", " ", "{">>,
                    <<"{", "\"", "a", "\"", ":", " ", "1", "}", " ", "a", "n", "d", " ", "{", "b", "}">> }}

InitFallback ==
    /\ \/ /\ pc = "ollama"
          /\ endpoints \in [ollama : Responses, localai : Responses]
          /\ code = <<>>
          /\ analysis_output = <<>>
          /\ error_count = 0
          /\ warning_count = 0
       \/ /\ pc = "suggest"
          /\ endpoints = <<>>
          /\ code \in {p.src : p \in Programs}
          /\ analysis_output \in SeqsOf(ReportLines, 1, MaxReport)
          /\ error_count \in 0..MaxCount
          /\ warning_count \in 0..MaxCount
    /\ result = NoResult
    /\ calls = <<>>
    /\ errors = <<>>
    /\ lines = <<>>
    /\ improvements = <<>>
    /\ origin = <<>>
    /\ last = NoStep
    /\ impl = "ai_helper"
    /\ parsed = <<>>
    /\ pylint = <<>>

\* The first try block contacting the second endpoint whatever the first answers
TryOllama_Always ==
    /\ pc = "ollama"
    /\ calls' = Append(calls, "ollama")
    /\ LET a == Attempt(endpoints.ollama) IN
       /\ pc' = IF a.outcome = "raise" THEN "fallback_raised" ELSE "localai"
       /\ result' = IF a.outcome = "raise" THEN [raised |-> a.exception, returned |-> None]
                    ELSE result
    /\ UNCHANGED <<code, repairVars, suggestVars, impl, parsed, pylint, endpoints>>

\* The first try block: the request to Ollama
TryOllama ==
    /\ pc = "ollama"
    /\ calls' = Append(calls, "ollama")
    /\ LET a == Attempt(endpoints.ollama) IN
       /\ pc' = IF a.outcome = "return" THEN "fallback_done"
                ELSE IF a.outcome = "raise" THEN "fallback_raised"
                ELSE "localai"
       /\ result' = IF a.outcome = "return" THEN [raised |-> NoException, returned |-> a.value]
                    ELSE IF a.outcome = "raise" THEN [raised |-> a.exception, returned |-> None]
                    ELSE result
    /\ UNCHANGED <<code, repairVars, suggestVars, impl, parsed, pylint, endpoints>>

\* The second try block, the request to LocalAI, and the final `return None`
TryLocalAI ==
    /\ pc = "localai"
    /\ calls' = Append(calls, "localai")
    /\ LET a == Attempt(endpoints.localai) IN
       /\ pc' = IF a.outcome = "raise" THEN "fallback_raised" ELSE "fallback_done"
       /\ result' = IF a.outcome = "return" THEN [raised |-> NoException, returned |-> a.value]
                    ELSE IF a.outcome = "raise" THEN [raised |-> a.exception, returned |-> None]
                    ELSE [raised |-> NoException, returned |-> None]
    /\ UNCHANGED <<code, repairVars, suggestVars, impl, parsed, pylint, endpoints>>

NextFallback == TryOllama \/ TryLocalAI \/ Suggest
SpecFallback == InitFallback /\ [][NextFallback]_vars

(***************************************************************************)
(* Properties of the repair passes.                                        *)
(***************************************************************************)
LastError == errors[Len(errors)]

\* C2: in the lint repair pass every diagnostic whose line number names a
\* line of the source addresses the buffer line that holds that source
\* line, also after an earlier E0602 insertion.
C2_AddressesOriginalLine ==
    (last.pass = "lint" /\ last.line >= 1 /\ last.line <= Len(code))
        => last.addressed = last.line

\* C3: a single E0602 diagnostic on an in-range line n whose message holds
\* "Undefined variable '<name>'" inserts the line '<name> = None ...' right
\* before source line n, keeps every source line and their order, makes the
\* buffer one line longer and adds exactly one record.
UndefinedNames(message) ==
    {name \in {SubSeq(message, a, b) : a, b \in 1..Len(message)} :
        /\ name # <<>>
        /\ \A i \in 1..Len(name) : IsWord(name[i])
        /\ Contains(message, T_UndefinedVariable \o name \o <<"'">>)}

C3_Case ==
    /\ pc \in {"lint", "done"}
    /\ Len(errors) = 1
    /\ errors[1].code = "E0602"
    /\ errors[1].line_num # None
    /\ errors[1].line_num[1] \in 1..Len(code)
    /\ UndefinedNames(errors[1].message) # {}

C7_BadLineSkipped ==
    (last.pass \in {"syntax", "lint"} /\ ~last.inrange)
        => /\ pc # "raised"
           /\ lines = last.before
           /\ Len(improvements) = last.nrec

\* C9 as stated: with a missing-colon message on a line that is not
\* colon-terminated and holds a control keyword followed by non-whitespace
\* content, ':' is appended to the line, nothing else changes and one
\* 'Missing colon' record is added; otherwise the line is unchanged and no
\* record is added.
ColonTerminated(line) ==
    \E k \in 1..Len(line) : line[k] = ":" /\ \A j \in (k + 1)..Len(line) : IsSpace(line[j])

ControlKeywordThenContent(line) ==
    \E k \in Keywords : \E i \in 1..Len(line) :
        /\ i + Len(k) - 1 <= Len(line)
        /\ SubSeq(line, i, i + Len(k) - 1) = k
        /\ \E j \in (i + Len(k))..Len(line) :
              /\ ~IsSpace(line[j])
              /\ ~IsWord(line[i + Len(k)])

\* the line without its trailing whitespace
Stripped(line) ==
    LET k == CHOOSE m \in 0..Len(line) :
                /\ (m = 0 \/ ~IsSpace(line[m]))
                /\ \A j \in (m + 1)..Len(line) : IsSpace(line[j])
    IN SubSeq(line, 1, k)

C9_Step == last.pass = "syntax" /\ last.inrange
C9_ColonMessage == "expected ':'" \in LastError.message
C9_Conditions ==
    /\ C9_ColonMessage
    /\ ~ColonTerminated(last.before[last.line])
    /\ ControlKeywordThenContent(last.before[last.line])
C9_OthersUnchanged ==
    /\ Len(lines) = Len(last.before)
    /\ \A i \in 1..Len(lines) : i # last.line => lines[i] = last.before[i]
C9_OneColonRecord ==
    /\ Len(improvements) = last.nrec + 1
    /\ improvements[Len(improvements)].issue = "Missing colon at line "
    /\ improvements[Len(improvements)].arg = Str(last.line)

C9_AsStated ==
    C9_Step =>
        /\ C9_Conditions =>
              /\ lines[last.line] = last.before[last.line] \o <<":">>
              /\ C9_OthersUnchanged
              /\ C9_OneColonRecord
        /\ ~C9_Conditions =>
              /\ lines = last.before
              /\ Len(improvements) = last.nrec

\* C9, amended: under the three conditions the line becomes its text
\* without trailing whitespace followed by ':', nothing else changes and one
\* 'Missing colon' record is added; with a missing-colon message and one of
\* the other two conditions failing, the buffer is unchanged and no record
\* is added; without a missing-colon message no 'Missing colon' record is
\* added.
C9_MissingColon ==
    C9_Step =>
        /\ C9_Conditions =>
              /\ lines[last.line] = Stripped(last.before[last.line]) \o <<":">>
              /\ C9_OthersUnchanged
              /\ C9_OneColonRecord
        /\ (C9_ColonMessage /\ ~C9_Conditions) =>
              /\ lines = last.before
              /\ Len(improvements) = last.nrec
        /\ ~C9_ColonMessage =>
              \/ Len(improvements) = last.nrec
              \/ improvements[Len(improvements)].issue # "Missing colon at line "

C9_Witness ==
    /\ C9_Step
    /\ C9_Conditions
    /\ last.line = 1
    /\ last.before = <<<<"i", "f", " ", "T">>, <<" ", " ", "p", "(", "1", ")">>>>
    /\ lines = <<<<"i", "f", " ", "T", ":">>, <<" ", " ", "p", "(", "1", ")">>>>

(***************************************************************************)
(* Properties of the repair engine.                                        *)
(***************************************************************************)
SuggestEnded == pc \in {"returned", "raised"} /\ analysis_output # <<>>
SuggestReturned == SuggestEnded /\ result.raised = NoException

\* C1: for every input get_improvement_suggestions returns a result with a
\* non-empty improvements list and non-empty explanation and learning_tip,
\* and the 'No specific issues found' record only ever stands alone.
C1_WellFormedResult ==
    SuggestEnded =>
        /\ result.raised = NoException
        /\ result.improvements # <<>>
        /\ result.explanation # ""
        /\ result.learning_tip # ""
        /\ (\E i \in 1..Len(result.improvements) : result.improvements[i] = NoIssuesRecord)
              => result.improvements = <<NoIssuesRecord>>

\* C4: whenever the source fails to parse, the returned explanation and
\* learning tip are the syntax ones and only the syntax repair pass (or the
\* final 'No specific issues found' substitute) contributes records, whatever
\* the counts and whether or not a syntax transformation fired.
SyntaxIssues == {
    "Missing colon at line ", "Unbalanced parentheses at line ",
    "Unbalanced brackets at line ", "Unbalanced braces at line ",
    "Incorrect indentation at line ", "Missing indentation at line " }

C4_SyntaxBranchExclusive ==
    (SuggestReturned /\ ~ast_parse(code).ok) =>
        /\ result.explanation = E_Syntax
        /\ result.learning_tip = L_Syntax
        /\ \/ result.improvements = <<NoIssuesRecord>>
           \/ \A i \in 1..Len(result.improvements) :
                 result.improvements[i].issue \in SyntaxIssues

\* C5 as stated: a source that parses, with an empty report and zero counts,
\* comes back unchanged with exactly the 'No specific issues found' record.
C5_CleanInput ==
    /\ SuggestEnded
    /\ ast_parse(code).ok
    /\ analysis_output = << <<>> >>
    /\ error_count = 0
    /\ warning_count = 0

HasDocstringPattern(text) ==
    \E i, open, close, q \in 1..Len(text) :
        /\ i + 4 < open /\ open < close /\ close + 1 < q
        /\ SubSeq(text, i, i + 3) = <<"d", "e", "f", " ">>
        /\ \A k \in (i + 4)..(open - 1) : IsWord(text[k])
        /\ text[open] = "("
        /\ \A k \in (open + 1)..(close - 1) : text[k] # ")"
        /\ text[close] = ")"
        /\ text[close + 1] = ":"
        /\ \A k \in (close + 2)..(q - 1) : IsSpace(text[k])
        /\ text[q] \in {"'", "\""}

HasNamedExcept(text) ==
    \E i, j \in 1..Len(text) :
        /\ i + 7 < j
        /\ SubSeq(text, i, i + 6) = <<"e", "x", "c", "e", "p", "t", " ">>
        /\ \A k \in (i + 7)..(j - 1) : text[k] \in LowerCh \cup UpperCh
        /\ text[j] = ":"

NoHeuristicFires(text) ==
    /\ Contains(text, <<"d", "e", "f">>) => HasDocstringPattern(text)
    /\ Contains(text, <<"e", "x", "c", "e", "p", "t", ":">>) => HasNamedExcept(text)

Occurrences(text, line) == Cardinality({i \in 1..Len(text) : text[i] = line})

\* The submitted source is one function whose body is a return statement
\* followed by one or more further statements
ReturnThenMore ==
    /\ parsed.ok
    /\ Len(parsed.tree.body) = 1
    /\ parsed.tree.body[1].type = "FunctionDef"
    /\ Len(parsed.tree.body[1].body) >= 2
    /\ parsed.tree.body[1].body[1].type = "Return"

\* C6: for a function body made of a return statement followed by one or
\* more further statements, the unreachable-code finding is reported, and it
\* is reported exactly once however many statements follow the return.
C6_ReturnThenMoreReported ==
    (impl = "app" /\ pc = "done" /\ ReturnThenMore) =>
        Occurrences(result.output, T_UnreachableIssue) = 1

\* The steps other than the structural parse
LaterSteps == {"pylint", "check_logical_issues"}

\* C8: the structural parse is the first step; when the source fails to parse
\* the pipeline returns right after it, without the linter or any detector,
\* with error_count 1, warning_count 0, error_types {syntax: 1} and an output
\* holding the single positioned syntax diagnostic; the linter and the
\* detectors run only after a successful parse.
C8_ParseFirstAndShortCircuits ==
    /\ calls # <<>> => calls[1] = "ast.parse"
    /\ (\E i \in 1..Len(calls) : calls[i] \in LaterSteps) => parsed.ok
    /\ (calls # <<>> /\ ~parsed.ok) =>
          /\ pc = "done"
          /\ calls = <<"ast.parse">>
          /\ result.error_count = 1
          /\ result.warning_count = 0
          /\ result.error_types = (K_syntax :> 1)
          /\ Len(result.output) = 2
          /\ result.output[2] = <<>>
          /\ LET position(x, default) == IF x = None THEN default ELSE x[1] IN
             result.output[1] =
                 <<"L", "i", "n", "e", " ">> \o Str(position(parsed.lineno, 1))
                 \o <<",", " ", "C", "o", "l", " ">> \o Str(position(parsed.offset, 0))
                 \o <<":", " ", "S", "y", "n", "t", "a", "x", "E", "r", "r", "o", "r", ":", " ">>
                 \o parsed.msg

\* C8 witness: a source that does not parse, whose error carries no line
\* number, has been analysed
C8_Witness ==
    /\ pc = "done"
    /\ ~parsed.ok
    /\ parsed.lineno = None
    /\ calls = <<"ast.parse">>
    /\ result.error_count = 1

\* The categories (first letters) of the recognised lines of a lint report:
\* the lines that hold a ':' and a message code
Recognised(stdout, categories) ==
    Cardinality({i \in 1..Len(stdout) :
                    /\ Contains(stdout[i], <<":">>)
                    /\ CodeSearch(stdout[i]) # None
                    /\ CodeSearch(stdout[i])[1] \in categories})

RECURSIVE SumOver(_, _)
SumOver(d, keys) ==
    IF keys = {} THEN 0
    ELSE LET k == CHOOSE x \in keys : TRUE IN d[k] + SumOver(d, keys \ {k})

\* The sum of the error_types counts
TypesTotal(d) == SumOver(d, DOMAIN d)

\* The lint report has been counted and nothing else has been added yet
LintCounted ==
    /\ parsed.ok
    /\ pylint.ok
    /\ \/ impl = "app" /\ pc = "logical"
       \/ impl = "analyzer" /\ pc = "done"

\* The statistics the claim states for a counted lint report
CountsAsStated ==
    /\ result.error_count = Recognised(pylint.stdout, {"E", "F"})
    /\ result.warning_count = Recognised(pylint.stdout, {"W", "C", "R"})
    /\ (IF K_style \in DOMAIN result.error_types THEN result.error_types[K_style] ELSE 0)
          = Recognised(pylint.stdout, {"C", "R"})
    /\ result.error_count + result.warning_count
          = Recognised(pylint.stdout, {"E", "F", "W", "C", "R"})
    /\ result.error_count + result.warning_count = TypesTotal(result.error_types)

\* C10: every recognised E or F code adds 1 to error_count, every recognised
\* W, C or R code adds 1 to warning_count (C and R under the 'style' type),
\* so error_count + warning_count is the number of recognised lines and the
\* sum of the error_types counts, in app.py and in analyzer.py alike.
C10_AggregateStatistics == LintCounted => CountsAsStated

\* The same statistics for run_pylint_analysis of app.py alone
AppAggregateStatistics == (LintCounted /\ impl = "app") => CountsAsStated

(***************************************************************************)
(* Properties of the knowledge-base fallback.                              *)
(***************************************************************************)
\* The records of the result that the knowledge-base fallback wrote
KBRecords ==
    {i \in 1..Len(result.improvements) :
        result.improvements[i].issue = "Potential issue: "}

\* C11: when the counts are non-zero and no structured diagnostic produced a
\* fix, the knowledge-base fallback produces a single issue/solution pair,
\* from the first table entry matching the analysis text, even when several
\* entries match.
C11_SingleFallbackRecord ==
    (SuggestReturned /\ (error_count > 0 \/ warning_count > 0)) =>
        Cardinality(KBRecords) <= 1

(***************************************************************************)
(* Properties of the external suggestion fallback.                         *)
(***************************************************************************)
\* The text fields from which a payload can be read
PayloadTexts == { <<"{", "\"", "a", "\"", ":", " ", "1", "}">>, <<"x", " ", "{", "\"", "a", "\"", ":", " ", "1", "}", " ", "y">> }

\* The endpoint's answer is a well-formed response: status 200 and a JSON
\* body whose text field holds a JSON object
WellFormed(r) ==
    /\ r.raises = NoException
    /\ r.status_code = 200
    /\ r.json = "dict"
    /\ r.text # None
    /\ r.text[1] \in PayloadTexts

FallbackStarted == pc \in {"ollama", "localai", "fallback_done", "fallback_raised"}
FallbackEnded == pc \in {"fallback_done", "fallback_raised"}

\* C12: the second endpoint is contacted only after the attempt on the first
\* has failed; a well-formed first response is returned without contacting
\* the second; when both attempts fail the function returns None and never
\* raises; and get_improvement_suggestions ends without any endpoint call.
C12_SequentialFallback ==
    /\ FallbackStarted =>
          /\ calls \in {<<>>, <<"ollama">>, <<"ollama", "localai">>}
          /\ pc # "fallback_raised"
          /\ (Len(calls) = 2 => ~WellFormed(endpoints.ollama))
    /\ FallbackEnded =>
          /\ result.raised = NoException
          /\ WellFormed(endpoints.ollama) =>
                (calls = <<"ollama">> /\ result.returned # None)
          /\ (~WellFormed(endpoints.ollama) /\ WellFormed(endpoints.localai)) =>
                (calls = <<"ollama", "localai">> /\ result.returned # None)
          /\ (~WellFormed(endpoints.ollama) /\ ~WellFormed(endpoints.localai)) =>
                (calls = <<"ollama", "localai">> /\ result.returned = None)
    /\ pc \in {"returned", "raised"} => calls = <<>>

\* C12 witness: the first endpoint answered 200 with an unusable text, the
\* second could not be reached, and the function returned None
C12_Witness ==
    /\ pc = "fallback_done"
    /\ endpoints.ollama.status_code = 200
    /\ endpoints.ollama.text = Some(<<"{", "\"", "a", "\"", ":", " ", "1", "}", " ", "a", "n", "d", " ", "{", "b", "}">>)
    /\ endpoints.localai.raises = "Timeout"
    /\ calls = <<"ollama", "localai">>
    /\ result.returned = None

(***************************************************************************)
(* Properties of the smell detectors' composition.                         *)
(***************************************************************************)
\* The number of detectors that report a finding on the parsed source
Fired ==
    (IF check_division_by_zero(parsed.tree) THEN 1 ELSE 0)
    + (IF check_unreachable_code(parsed.tree) THEN 1 ELSE 0)
    + (IF check_mutable_default_args(parsed.tree) THEN 1 ELSE 0)

\* error_types[k], an absent key counting as 0
TypeCount(r, k) == IF k \in DOMAIN r.error_types THEN r.error_types[k] ELSE 0

\* C13: each detector that reports a finding adds exactly one 'logic' entry
\* and exactly 1 to warning_count, independently of the other two:
\* error_types['logic'] grows by the number of detectors that fired (0 to 3),
\* error_count is not increased, and the output gains exactly one line per
\* fired detector.
C13_DetectorsCompose ==
    [][(pc = "logical" /\ pc' = "done") =>
          /\ result'.warning_count = result.warning_count + Fired
          /\ result'.error_count = result.error_count
          /\ TypeCount(result', K_logic) = TypeCount(result, K_logic) + Fired
          /\ \A k \in DOMAIN result.error_types :
                k # K_logic => TypeCount(result', k) = TypeCount(result, k)
          /\ Occurrences(result'.output, T_DivisionIssue)
                = (IF check_division_by_zero(parsed.tree) THEN 1 ELSE 0)
          /\ Occurrences(result'.output, T_UnreachableIssue)
                = (IF check_unreachable_code(parsed.tree) THEN 1 ELSE 0)
          /\ Occurrences(result'.output, T_MutableIssue)
                = (IF check_mutable_default_args(parsed.tree) THEN 1 ELSE 0)
          /\ Len(result'.output)
                = Len(result.output) + (IF Fired = 0 THEN 0 ELSE Fired + 1)
      ]_vars

\* C13 witness: all three detectors fired on one source and its analysis
\* ended with a lint report that held a warning of its own
C13_Witness ==
    /\ impl = "app"
    /\ pc = "done"
    /\ parsed.ok
    /\ Fired = 3
    /\ TypeCount(result, K_logic) = 3
    /\ result.warning_count > 3

(***************************************************************************)
(* Frame properties of the syntax repair pass.                             *)
(***************************************************************************)
\* One of the four cases (colon, bracket, de-indent, indent) applies to the
\* line the latest syntax diagnostic names
SyntaxCaseApplies ==
    /\ last.inrange
    /\ LET line == last.before[last.line]
           m == LastError.message
           Open(a, b) == (\E i \in 1..Len(line) : line[i] = a)
                         /\ ~(\E i \in 1..Len(line) : line[i] = b)
       IN IF "expected ':'" \in m
          THEN ~ColonTerminated(line) /\ ControlKeywordThenContent(line)
          ELSE IF "unmatched" \in m \/ "unclosed" \in m
          THEN Open("(", ")") \/ Open("[", "]") \/ Open("{", "}")
          ELSE "unexpected indent" \in m \/ "expected an indented block" \in m

\* The texts the four transformations can turn a line into
SyntaxRewrites(line) ==
    { Stripped(line) \o <<":">>, line \o <<")">>, line \o <<"]">>, line \o <<"}">>,
      lstrip(line), <<" ", " ", " ", " ">> \o line }

\* What one diagnostic may do to the buffer and the records
SyntaxFrame ==
    /\ Len(lines) = Len(last.before)
    /\ \A i \in 1..Len(lines) : i # last.line => lines[i] = last.before[i]
    /\ Len(improvements) = last.nrec + (IF SyntaxCaseApplies THEN 1 ELSE 0)
    /\ SyntaxCaseApplies => lines[last.line] \in SyntaxRewrites(last.before[last.line])
    /\ ~SyntaxCaseApplies => lines = last.before

\* C14: for each syntax diagnostic the pass applies at most one of the four
\* transformations, modifies at most the one diagnosed line, appends exactly
\* one record if and only if a transformation fired, leaves a line matching
\* no case untouched, and never changes the number of lines.
C14_OneLineOneRecord == last.pass = "syntax" => SyntaxFrame

\* The same for the diagnostics whose line number names a line of the buffer
SyntaxFrameInRange == (last.pass = "syntax" /\ last.inrange) => SyntaxFrame

(***************************************************************************)
(* Guards of the lint repair pass.                                         *)
(***************************************************************************)
\* The words w for which message holds prefix, w, suffix in a row
NamesIn(message, prefix, suffix) ==
    LET n == Len(message)
        starts == {a \in (Len(prefix) + 1)..n :
                      SubSeq(message, a - Len(prefix), a - 1) = prefix}
        ends(a) == {b \in a..n :
                      /\ \A i \in a..b : IsWord(message[i])
                      /\ b + Len(suffix) <= n
                      /\ SubSeq(message, b + 1, b + Len(suffix)) = suffix}
    IN UNION {{SubSeq(message, a, b) : b \in ends(a)} : a \in starts}

\* The longest of a non-empty set of words
Longest(names) == CHOOSE n \in names : \A m \in names : Len(m) <= Len(n)

\* line holds `name`, not preceded by a word character, then blanks and '='
HasAssignment(line, name) ==
    \E i \in 1..Len(line), j \in 1..Len(line) :
        /\ i + Len(name) <= j
        /\ SubSeq(line, i, i + Len(name) - 1) = name
        /\ (i = 1 \/ ~IsWord(line[i - 1]))
        /\ \A k \in (i + Len(name))..(j - 1) : IsSpace(line[k])
        /\ line[j] = "="

\* The latest lint diagnostic names a line of the buffer and fails the guard
\* of its case: its code is none of the four, or its message lacks the
\* sub-pattern of its code, or the line lacks the import or the assignment
LintGuardFails ==
    /\ last.pass = "lint"
    /\ last.inrange
    /\ LET e == LastError
           line == last.before[last.line]
           undefined == NamesIn(e.message, T_UndefinedVariable, <<"'">>)
           imports == NamesIn(e.message, T_UnusedImport, <<>>)
           invalid == NamesIn(e.message, T_InvalidName, <<"\"">>)
           unused == NamesIn(e.message, T_UnusedVariable, <<"'">>)
       IN \/ e.code \notin {C_E0602, C_W0611, C_C0103, C_W0612}
          \/ e.code = C_E0602 /\ undefined = {}
          \/ e.code = C_W0611 /\ (imports = {} \/ ~Contains(line, T_import \o Longest(imports)))
          \/ e.code = C_C0103 /\ invalid = {}
          \/ e.code = C_W0612 /\ (unused = {} \/ ~HasAssignment(line, Longest(unused)))

\* C15: a lint diagnostic whose code is none of the four, whose message lacks
\* the expected sub-pattern, or whose line lacks the expected import or
\* assignment text leaves the buffer unchanged, adds no record, raises no
\* error, and the pass goes on with the next diagnostic.
C15_GuardedSkip ==
    LintGuardFails =>
        /\ lines = last.before
        /\ Len(improvements) = last.nrec
        /\ pc \in {"lint", "done"}

\* C15 witness: an unused-variable diagnostic on a line without the
\* assignment was skipped after an unused-import diagnostic whose message
\* lacked the pattern, and the pass returned
C15_Witness ==
    /\ pc = "done"
    /\ Len(errors) = 2
    /\ errors[1].code = C_W0611
    /\ errors[1].message = M_Other
    /\ errors[1].line_num = Some(1)
    /\ errors[2].code = C_W0612
    /\ errors[2].message = M_UnusedVariable
    /\ LintGuardFails
    /\ lines = code
    /\ improvements = <<>>

\* The diagnostic the recognition rule gives a report line: (a) a colon and
\* a message code, then that code; (b) no code, a runtime error name and a
\* 'line <N>' fragment, then E9999 at line N; otherwise none
StatedDiagnostic(line) ==
    IF Contains(line, <<":">>) /\ CodeSearch(line) # None
    THEN <<[code |-> CodeSearch(line), message |-> line]>>
    ELSE IF /\ CodeSearch(line) = None
            /\ \E name \in RuntimeErrorNames : Contains(line, name)
            /\ LineSearch(line) # None
    THEN <<[code |-> C_E9999, line_num |-> LineSearch(line), message |-> line]>>
    ELSE <<>>

RECURSIVE StatedDiagnostics(_)
StatedDiagnostics(report) ==
    IF report = <<>> THEN <<>>
    ELSE StatedDiagnostic(Head(report)) \o StatedDiagnostics(Tail(report))

\* The diagnostics that carry a message code of the report itself
RECURSIVE CodedDiagnostics(_)
CodedDiagnostics(ds) ==
    IF ds = <<>> THEN 0
    ELSE (IF Head(ds).code = C_E9999 THEN 0 ELSE 1) + CodedDiagnostics(Tail(ds))

\* C16: once get_improvement_suggestions has classified the report, its
\* diagnostics are exactly those of the recognition rule, line by line (a
\* colon and a message code give that code; a runtime error name with a
\* 'line <N>' fragment gives E9999 at line N; any other line gives none),
\* and the diagnostics that carry a message code are as many as the lines
\* run_pylint_analysis counts in the same report.
C16_ReportClassifier ==
    SuggestEnded =>
        /\ Len(errors) = Len(StatedDiagnostics(analysis_output))
        /\ \A i \in 1..Len(errors) :
            LET d == StatedDiagnostics(analysis_output)[i] IN
            /\ errors[i].code = d.code
            /\ errors[i].message = d.message
            /\ d.code = C_E9999 => errors[i].line_num = d.line_num
        /\ LET counted == CountLoop(EmptyResult, analysis_output) IN
           CodedDiagnostics(errors) = counted.error_count + counted.warning_count

\* C16: the same, for the reports whose lines with a message code all hold
\* a colon
C16_ColonReports ==
    (\A i \in 1..Len(analysis_output) :
        CodeSearch(analysis_output[i]) # None => Contains(analysis_output[i], <<":">>))
    => C16_ReportClassifier

\* The number of 'Undefined variable' records of a list of records
RECURSIVE UndefinedRecords(_)
UndefinedRecords(recs) ==
    IF recs = <<>> THEN 0
    ELSE (IF Head(recs).issue = "Undefined variable '" THEN 1 ELSE 0)
         + UndefinedRecords(Tail(recs))

\* The issue of the record each handled code adds
IssueOf(error_code) ==
    IF error_code = C_E0602 THEN "Undefined variable '"
    ELSE IF error_code = C_W0611 THEN "Unused import '"
    ELSE IF error_code = C_C0103 THEN "Invalid name '"
    ELSE "Unused variable '"

\* One iteration of the lint pass: either nothing changes, or one record is
\* appended for the diagnostic just processed, an 'Undefined variable'
\* record together with one new line, any other record with at most the
\* addressed line rewritten in place
LintIteration ==
    Len(errors') = Len(errors) + 1 =>
        \/ lines' = lines /\ improvements' = improvements
        \/ /\ Len(improvements') = Len(improvements) + 1
           /\ SubSeq(improvements', 1, Len(improvements)) = improvements
           /\ LET rec == improvements'[Len(improvements')]
                  error == errors'[Len(errors')]
              IN
              /\ error.code \in {C_E0602, C_W0611, C_C0103, C_W0612}
              /\ rec.issue = IssueOf(error.code)
              /\ IF error.code = C_E0602
                 THEN /\ Len(lines') = Len(lines) + 1
                      /\ \E i \in 1..Len(lines') :
                          lines = SubSeq(lines', 1, i - 1) \o SubSeq(lines', i + 1, Len(lines'))
                 ELSE /\ Len(lines') = Len(lines)
                      /\ \A i \in 1..Len(lines) :
                          i # error.line_num[1] => lines'[i] = lines[i]

\* C17: throughout the lint pass the buffer holds as many lines as the
\* source plus one per 'Undefined variable' record; W0611, C0103 and W0612
\* edits rewrite a line in place; and each iteration appends its record, if
\* any, after the records of the earlier diagnostics, equal records included.
C17_LineCountAndOrder ==
    /\ [](pc \in {"lint", "done"} =>
            /\ Len(lines) = Len(code) + UndefinedRecords(improvements)
            /\ Len(improvements) <= Len(errors))
    /\ [][LintIteration]_vars

\* C17: the pass has returned after the same 'Undefined variable' diagnostic
\* twice: two equal records and two lines more than the source
C17_Witness ==
    /\ pc = "done"
    /\ Len(errors) = 2
    /\ errors[1] = errors[2]
    /\ Len(improvements) = 2
    /\ improvements[1] = improvements[2]
    /\ improvements[1].issue = "Undefined variable '"
    /\ Len(lines) = Len(code) + 2

====
